---- MODULE Spec2Model ----
(***************************************************************************)
(* Student participation flow of the assessment-session backend            *)
(* (blueprints/student_sessions.py): join, next-question retrieval, answer *)
(* submission and session end, over the storage tables the handlers read   *)
(* and write, with the answer evaluator (utils/answer_evaluator.py) and    *)
(* the reference-answer generator (utils/question_generator.py).           *)
(*                                                                         *)
(* Encoding of Python values:                                              *)
(*   - a table is a sequence of rows in insertion order; the serial        *)
(*     primary key of a row is its position in the table;                  *)
(*   - None in a text column is NoneStr, None in a numeric column is       *)
(*     NoNum, None in the JSON column ai_score of studentanswer_interview  *)
(*     is NoneMap;                                                         *)
(*   - a float is an integer number of hundredths (8.0 is 800), so that a  *)
(*     quotient is an integer division of hundredths.                      *)
(***************************************************************************)
EXTENDS FiniteSets, Integers, Sequences, TLC

VARIABLES
    session,                  \* table session: session_id -> row
    interviewconfig,          \* table interviewconfig: session_id -> row
    question,                 \* table question
    question_interview,       \* table question_interview
    studentsession,           \* table studentsession
    studentanswer,            \* table studentanswer
    studentanswer_interview,  \* table studentanswer_interview
    inflight,                 \* requests between their lookup and their write
    resp,                     \* the last request served and its response
    llm                       \* the call of call_llm_json in progress

vars == <<session, interviewconfig, question, question_interview, studentsession,
          studentanswer, studentanswer_interview, inflight, resp, llm>>

tables == <<session, interviewconfig, question, question_interview, studentsession,
            studentanswer, studentanswer_interview>>

----------------------------------------------------------------------------
(* Bounds of the model *)

MaxStudentSessions == 2     \* rows of studentsession
MaxAnswers == 2             \* rows of studentanswer and studentanswer_interview together
MaxInFlight == 2            \* concurrent requests between lookup and write
MaxQuestions == 2           \* questions in a backend response to the question prompt
MaxRetries == 3             \* largest max_retries a call of call_llm_json is given

----------------------------------------------------------------------------
(* Python values *)

NoneStr == "None"
NoNum == -1
NoneMap == [none |-> TRUE]

\* truthiness of a text value: None and "" are falsy
Truthy(s) == s \notin {NoneStr, ""}

\* float(x) of a number of the model
F(x) == x * 100

Students == {1, 2}

\* an answer text of 16001 characters, and len(text) of the texts of the model
LongText == "long"
Chars(text) == IF text = LongText THEN 16001 ELSE IF text = "" THEN 0 ELSE 2
RECURSIVE SumSeq(_)
SumSeq(s) == IF s = <<>> THEN 0 ELSE Head(s) + SumSeq(Tail(s))

\* the positions in the set S, in ascending (retrieval) order
RECURSIVE Positions(_)
Positions(S) ==
    IF S = {} THEN <<>>
    ELSE LET first == CHOOSE x \in S : \A y \in S : x <= y
         IN  <<first>> \o Positions(S \ {first})

Range(s) == {s[i] : i \in DOMAIN s}

----------------------------------------------------------------------------
(* Responses *)

NoResp ==
    [op |-> "none", status |-> 0, error |-> "", message |-> "",
     session_id |-> 0, student_id |-> 0, password |-> "", fault |-> "none", fault_at |-> 0,
     calls |-> <<>>,
     student_session_id |-> 0,
     question_id |-> 0, question_interview_id |-> 0, question_number |-> 0, total_questions |-> 0,
     completed |-> FALSE,
     answer_text |-> "", answer_id |-> 0, answered_count |-> 0,
     next_question_available |-> FALSE,
     score_total |-> NoNum, ai_overall_feedback |-> NoneStr,
     gen |-> "none", generated |-> 0, session_started |-> FALSE,
     time_limit |-> NoNum, history |-> <<>>,
     response |-> NoneMap, evaluation |-> NoneMap, log |-> <<>>,
     ref_ids |-> <<>>, answer_map |-> NoneMap]

Error(r, status, error) == [r EXCEPT !.status = status, !.error = error]

----------------------------------------------------------------------------
(* join_session *)

\* the mutant: a PRACTICE or INTERVIEW session is joined whatever its status
JoinGateAnyStatus(session_id, password) ==
    IF session_id = 0 THEN <<400, "Session ID is required">>
    ELSE IF session_id \notin DOMAIN session THEN <<404, "Session not found">>
    ELSE LET s == session[session_id] IN
         IF s.session_type = "EXAM"
         THEN IF s.status # "ready" THEN <<400, "Session is not ready yet">>
              ELSE IF Truthy(s.password) /\ password # s.password
                   THEN <<401, "Invalid password">>
                   ELSE <<200, "">>
         ELSE <<200, "">>

\* the mutant: the password is compared even when none is configured
JoinGateAlwaysCompares(session_id, password) ==
    IF session_id = 0 THEN <<400, "Session ID is required">>
    ELSE IF session_id \notin DOMAIN session THEN <<404, "Session not found">>
    ELSE LET s == session[session_id] IN
         IF s.session_type = "EXAM"
         THEN IF s.status # "ready" THEN <<400, "Session is not ready yet">>
              ELSE IF password # s.password
                   THEN <<401, "Invalid password">>
                   ELSE <<200, "">>
         ELSE IF s.session_type \in {"PRACTICE", "INTERVIEW"}
                 /\ s.status \notin {"created", "ready"}
              THEN <<400, "Session is not available">>
              ELSE <<200, "">>

\* the session checks of join: <<status, error>>, status 200 when they pass
JoinGate(session_id, password) ==
    IF session_id = 0 THEN <<400, "Session ID is required">>
    ELSE IF session_id \notin DOMAIN session THEN <<404, "Session not found">>
    ELSE LET s == session[session_id] IN
         IF s.session_type = "EXAM"
         THEN IF s.status # "ready" THEN <<400, "Session is not ready yet">>
              ELSE IF Truthy(s.password) /\ password # s.password
                   THEN <<401, "Invalid password">>
                   ELSE <<200, "">>
         ELSE IF s.session_type \in {"PRACTICE", "INTERVIEW"}
                 /\ s.status \notin {"created", "ready"}
              THEN <<400, "Session is not available">>
              ELSE <<200, "">>

\* the mutant: the existence lookup finds nothing
ExistingStudentSessionsNone(session_id, student_id) == <<>>

\* the ids of the studentsession rows of (session_id, student_id), in order
ExistingStudentSessions(session_id, student_id) ==
    Positions({i \in 1..Len(studentsession) : studentsession[i].session_id = session_id /\ studentsession[i].student_id = student_id})

\* the row join inserts
NewStudentSession(session_id, student_id) ==
    [session_id |-> session_id, student_id |-> student_id,
     score_total |-> NoNum, ai_overall_feedback |-> NoneStr]

JoinRequest(session_id, student_id, password, fault) ==
    [NoResp EXCEPT !.op = "join", !.session_id = session_id,
                   !.student_id = student_id, !.password = password,
                   !.fault = fault]

\* the part of join after the existence lookup returned `existing`
JoinWrite(r, existing) ==
    IF existing # <<>>
    THEN /\ resp' = [r EXCEPT !.status = 200, !.student_session_id = existing[1],
                              !.message = "Already joined this session"]
         /\ UNCHANGED studentsession
    ELSE IF r.fault = "insert"
    THEN /\ resp' = Error(r, 500, "Failed to join session")
         /\ UNCHANGED studentsession
    ELSE /\ Len(studentsession) < MaxStudentSessions
         /\ studentsession' =
                Append(studentsession, NewStudentSession(r.session_id, r.student_id))
         /\ resp' = [r EXCEPT !.status = 200,
                              !.student_session_id = Len(studentsession) + 1,
                              !.message = "Joined session successfully"]

join_session(session_id, student_id, password, fault) ==
    LET r == JoinRequest(session_id, student_id, password, fault)
        gate == JoinGate(session_id, password)
    IN  /\ inflight = <<>>
        /\ IF gate[1] # 200
           THEN /\ resp' = Error(r, gate[1], gate[2])
                /\ UNCHANGED studentsession
           ELSE JoinWrite(r, ExistingStudentSessions(session_id, student_id))
        /\ UNCHANGED <<session, interviewconfig, question, question_interview,
                       studentanswer, studentanswer_interview, inflight, llm>>

----------------------------------------------------------------------------
(* Storage reads shared by the handlers *)

\* the ids of the studentanswer rows of a student session, in retrieval order
AnswersOf(student_session_id) ==
    Positions({i \in 1..Len(studentanswer) : studentanswer[i].student_session_id = student_session_id})

AnswersInterviewOf(student_session_id) ==
    Positions({i \in 1..Len(studentanswer_interview) : studentanswer_interview[i].student_session_id = student_session_id})

\* the ids of the questions of a session that students may see
EligibleQuestions(session_id) ==
    Positions({i \in 1..Len(question) : question[i].session_id = session_id /\ question[i].status \in {"approved", "answers_approved"}})

\* insert id x into the sequence s of question_interview ids, which is
\* ordered by ascending question_index, behind the ids of equal index
RECURSIVE InsertByIndex(_, _)
InsertByIndex(s, x) ==
    IF s = <<>> THEN <<x>>
    ELSE IF question_interview[x].question_index
              < question_interview[Head(s)].question_index
         THEN <<x>> \o s
         ELSE <<Head(s)>> \o InsertByIndex(Tail(s), x)

\* the mutant: the interview questions come in table order
OrderByTable(s) == s

RECURSIVE OrderByQuestionIndex(_)
OrderByQuestionIndex(s) ==
    IF s = <<>> THEN <<>>
    ELSE InsertByIndex(OrderByQuestionIndex(SubSeq(s, 1, Len(s) - 1)), s[Len(s)])

\* the ids of the interview questions of a session, in table order
InterviewQuestionsOf(session_id) ==
    Positions({i \in 1..Len(question_interview) : question_interview[i].session_id = session_id})

\* the mutant: any student passes for the owner
OwnerGateOpen(student_session_id, student_id) ==
    IF student_session_id \notin DOMAIN studentsession
    THEN <<404, "Student session not found">>
    ELSE <<200, "">>

\* the ownership check every handler after join starts with:
\* <<status, error>>, status 200 when it passes
OwnerGate(student_session_id, student_id) ==
    IF student_session_id \notin DOMAIN studentsession
    THEN <<404, "Student session not found">>
    ELSE IF studentsession[student_session_id].student_id # student_id
         THEN <<403, "Access denied">>
         ELSE <<200, "">>

SessionTypeOf(student_session_id) ==
    session[studentsession[student_session_id].session_id].session_type

----------------------------------------------------------------------------
(* get_next_question *)

get_next_question(student_session_id, student_id) ==
    LET r == ([NoResp EXCEPT !.op = "question", !.student_session_id = student_session_id, !.student_id = student_id])
        gate == OwnerGate(student_session_id, student_id)
    IN  /\ inflight = <<>>
        /\ IF gate[1] # 200
           THEN resp' = Error(r, gate[1], gate[2])
           ELSE LET session_id == studentsession[student_session_id].session_id
                    interview == SessionTypeOf(student_session_id) = "INTERVIEW"
                    answered_question_ids ==
                        IF interview
                        THEN [a \in DOMAIN AnswersInterviewOf(student_session_id) |->
                                 studentanswer_interview[AnswersInterviewOf(student_session_id)[a]].question_interview_id]
                        ELSE [a \in DOMAIN AnswersOf(student_session_id) |->
                                 studentanswer[AnswersOf(student_session_id)[a]].question_id]
                    all_questions ==
                        IF interview
                        THEN OrderByQuestionIndex(InterviewQuestionsOf(session_id))
                        ELSE EligibleQuestions(session_id)
                    unanswered == SelectSeq(all_questions, LAMBDA x : x \notin Range(answered_question_ids))
                IN  IF unanswered = <<>>
                    THEN resp' = [r EXCEPT !.status = 200, !.completed = TRUE,
                                           !.message = "No more questions"]
                    ELSE resp' = [r EXCEPT !.status = 200,
                                           !.question_id = unanswered[1],
                                           !.question_number = Len(answered_question_ids) + 1,
                                           !.total_questions = Len(all_questions)]
        /\ UNCHANGED <<tables, inflight, llm>>

----------------------------------------------------------------------------
(* Reference-answer generation (utils/question_generator.py) *)

\* a backend response to the reference-answer prompt:
\*   kind "raise"   call_llm_json raises
\*   kind "nokey"   a JSON object without the key answers
\*   kind "ok"      a JSON object whose answers is the list `answers` of items
\*                  [has_index, question_index, reference_answer]
RefItem(has_index, question_index, reference_answer) ==
    [has_index |-> has_index, question_index |-> question_index,
     reference_answer |-> reference_answer]

RefResponse(kind, answers) == [kind |-> kind, answers |-> answers]

Raised == [raised |-> TRUE, map |-> <<>>]

\* the loop that maps the answers to the ids of the questions found:
\* i is the 0-based position of the next item, acc the map so far
RECURSIVE AnswerMap(_, _, _, _)
AnswerMap(ids, answers, i, acc) ==
    IF i >= Len(answers) THEN [raised |-> FALSE, map |-> acc]
    ELSE LET item == answers[i + 1]
             question_index == IF item.has_index THEN item.question_index ELSE i
         IN  IF question_index < Len(ids)
             THEN IF question_index < 0 - Len(ids)
                  THEN Raised                     \* IndexError
                  ELSE LET pos == IF question_index >= 0
                                  THEN question_index + 1
                                  ELSE Len(ids) + question_index + 1
                       IN  AnswerMap(ids, answers, i + 1,
                                     (ids[pos] :> item.reference_answer) @@ acc)
             ELSE AnswerMap(ids, answers, i + 1, acc)

\* ids: the ids asked for that exist, in table order
generate_reference_answers_for_questions(ids, response) ==
    IF ids = <<>> THEN Raised
    ELSE IF response.kind # "ok" THEN Raised
    ELSE AnswerMap(ids, response.answers, 0, <<>>)

generate_reference_answers_for_interview(ids, response) ==
    IF ids = <<>> THEN Raised
    ELSE IF response.kind = "raise" THEN Raised
    ELSE IF response.kind = "nokey" THEN [raised |-> FALSE, map |-> <<>>]
    ELSE AnswerMap(ids, response.answers, 0, <<>>)

\* the mutant: the table is rewritten with the questions that were given a
\* reference answer, and the others are lost
PersistReferenceAnswersOnly(table, gen) ==
    IF gen.raised THEN table
    ELSE LET kept == SelectSeq([i \in 1..Len(table) |-> i],
                               LAMBDA id : id \in DOMAIN gen.map /\ Truthy(gen.map[id]))
         IN  [k \in 1..Len(kept) |->
                 [table[kept[k]] EXCEPT !.reference_answer = gen.map[kept[k]]]]

\* the mutant: an empty reference answer is written like any other
PersistReferenceAnswersAlsoEmpty(table, gen) ==
    IF gen.raised THEN table
    ELSE [id \in DOMAIN table |->
            IF id \in DOMAIN gen.map
            THEN [table[id] EXCEPT !.reference_answer = gen.map[id]]
            ELSE table[id]]

\* the table after the reference answers of a generated map are persisted:
\* only non-empty answers are written
PersistReferenceAnswers(table, gen) ==
    IF gen.raised THEN table
    ELSE [id \in DOMAIN table |->
            IF id \in DOMAIN gen.map /\ Truthy(gen.map[id])
            THEN [table[id] EXCEPT !.reference_answer = gen.map[id]]
            ELSE table[id]]

----------------------------------------------------------------------------
(* Answer evaluation (utils/answer_evaluator.py) *)

Criteria == {"correctness", "coverage", "reasoning", "creativity",
             "communication", "attitude"}

\* a value of the key overall_score that float() refuses (a word, a list)
NotANumber == -2

\* a backend response to the evaluation prompt:
\*   kind "raise"    call_llm_json raises
\*   kind "notdict"  a JSON document that is not an object (response.get raises)
\*   kind "ok"       a JSON object; has_overall says whether it has the key
\*                   overall_score, whose value is a number, NoNum (null) or
\*                   NotANumber; scores is its map of criterion scores (<<>>
\*                   when missing); it has no key strengths or weaknesses
EvalResponse(kind, has_overall, overall_score, scores, feedback) ==
    [kind |-> kind, has_overall |-> has_overall, overall_score |-> overall_score,
     scores |-> scores, feedback |-> feedback,
     strengths |-> <<>>, weaknesses |-> <<>>]

DefaultEvaluation ==
    [scores |-> [c \in Criteria |-> F(5)], overall_score |-> F(5),
     feedback |-> "Evaluation error", strengths |-> <<>>, weaknesses |-> <<>>]

\* the mutant: only a failed call of the backend counts as a failure
EvaluationFailsOnCallOnly(response) == response.kind = "raise"

\* whether the try block of evaluate_answer raises: the call raises, the
\* document has no method get, or float() refuses the overall score
EvaluationFails(response) ==
    \/ response.kind \in {"raise", "notdict"}
    \/ response.has_overall /\ response.overall_score \in {NoNum, NotANumber}

\* the mutant: a missing overall score is returned as null
evaluate_answerNullWhenMissing(response) ==
    IF EvaluationFails(response) THEN DefaultEvaluation
    ELSE [scores |-> response.scores,
          overall_score |-> IF response.has_overall THEN response.overall_score
                            ELSE NoNum,
          feedback |-> response.feedback,
          strengths |-> response.strengths,
          weaknesses |-> response.weaknesses]

evaluate_answer(response) ==
    IF EvaluationFails(response) THEN DefaultEvaluation
    ELSE [scores |-> response.scores,
          overall_score |-> IF response.has_overall THEN response.overall_score
                            ELSE 0,
          feedback |-> response.feedback,
          strengths |-> response.strengths,
          weaknesses |-> response.weaknesses]

\* a backend response to the overall-feedback prompt: "raise", or the value
\* of its key overall_feedback ("" when the key is missing)
generate_overall_feedback(response) ==
    IF response = "raise" THEN "Feedback generation error" ELSE response

\* total / count of end_session, in hundredths
Mean(total, count) == IF count # 0 THEN total \div count ELSE 0

----------------------------------------------------------------------------
(* submit_answer *)

SubmitRequest(student_session_id, student_id, question_id, question_interview_id, answer_text, fault) ==
    [NoResp EXCEPT !.op = "answer", !.student_session_id = student_session_id,
                   !.student_id = student_id, !.question_id = question_id,
                   !.question_interview_id = question_interview_id,
                   !.answer_text = answer_text, !.fault = fault]

\* the checks of submit_answer up to the question lookup
SubmitGate(r) ==
    IF (r.question_id = 0 /\ r.question_interview_id = 0) \/ r.answer_text = ""
    THEN <<400, "Question ID and answer are required">>
    ELSE LET owner == OwnerGate(r.student_session_id, r.student_id) IN
         IF owner[1] # 200 THEN owner
         ELSE IF SessionTypeOf(r.student_session_id) = "INTERVIEW"
              THEN IF r.question_interview_id \notin DOMAIN question_interview
                   THEN <<404, "Question not found">>
                   ELSE <<200, "">>
              ELSE IF r.question_id \notin DOMAIN question
                   THEN <<404, "Question not found">>
                   ELSE <<200, "">>

\* the ids of the answer rows of (student session, question): the
\* "already answered" lookup of the branch the request takes
ExistingAnswers(r) ==
    IF SessionTypeOf(r.student_session_id) = "INTERVIEW"
    THEN Positions({i \in 1..Len(studentanswer_interview) : studentanswer_interview[i].student_session_id = r.student_session_id /\ studentanswer_interview[i].question_interview_id = r.question_interview_id})
    ELSE Positions({i \in 1..Len(studentanswer) : studentanswer[i].student_session_id = r.student_session_id /\ studentanswer[i].question_id = r.question_id})

\* the mutant: a resubmission keeps the stale score and feedback
ResubmittedKeepsScore(row, answer_text, no_score, no_feedback) ==
    [row EXCEPT !.answer_text = answer_text]

\* the update of a resubmission
Resubmitted(row, answer_text, no_score, no_feedback) ==
    [row EXCEPT !.answer_text = answer_text, !.ai_score = no_score,
                !.ai_feedback = no_feedback]

CountOf(table, student_session_id) ==
    Len(SelectSeq(table, LAMBDA a : a.student_session_id = student_session_id))

\* the interview branch after the lookup returned `existing`
SubmitWriteInterview(r, existing) ==
    LET session_id == question_interview[r.question_interview_id].session_id
        inserted ==
            Append(studentanswer_interview,
                   [student_session_id |-> r.student_session_id,
                    question_interview_id |-> r.question_interview_id,
                    answer_text |-> r.answer_text,
                    ai_score |-> NoneMap, ai_feedback |-> NoneMap])
        updated ==
            [studentanswer_interview EXCEPT
                ![existing[1]] = Resubmitted(@, r.answer_text, NoneMap, NoneMap)]
        after == IF existing # <<>> THEN updated ELSE inserted
        answered_count == CountOf(after, r.student_session_id)
        total_questions == Len(InterviewQuestionsOf(session_id))
    IN  /\ UNCHANGED <<question, studentanswer>>
        /\ IF existing = <<>> /\ r.fault = "insert"
           THEN /\ resp' = Error(r, 500, "Failed to save answer")
                /\ UNCHANGED studentanswer_interview
           ELSE /\ existing = <<>> =>
                     Len(studentanswer) + Len(studentanswer_interview) < MaxAnswers
                /\ studentanswer_interview' = after
                /\ resp' = [r EXCEPT
                              !.status = 200,
                              !.answer_id = IF existing # <<>> THEN existing[1]
                                            ELSE Len(after),
                              !.next_question_available = answered_count < total_questions,
                              !.answered_count = answered_count,
                              !.total_questions = total_questions]

\* the mutant: a failure of the generator leaves submit_answer's inner try
ReferenceFailureEscapesWhenRaised(gen) == gen.raised

\* whether a failure of the reference-answer generator leaves the inner try
\* of submit_answer: its except takes every Exception and continues
ReferenceFailureEscapes(gen) == FALSE

\* the standard branch after the lookup returned `existing`; refResponse is
\* the backend's response should a reference answer be generated
SubmitWriteStandard(r, existing, refResponse) ==
    LET q == question[r.question_id]
        generate == ~Truthy(q.reference_answer)
                    /\ SessionTypeOf(r.student_session_id) = "PRACTICE"
        gen == generate_reference_answers_for_questions(<<r.question_id>>, refResponse)
        inserted ==
            Append(studentanswer,
                   [student_session_id |-> r.student_session_id,
                    question_id |-> r.question_id,
                    answer_text |-> r.answer_text,
                    ai_score |-> NoNum, ai_feedback |-> NoneStr])
        updated ==
            [studentanswer EXCEPT
                ![existing[1]] = Resubmitted(@, r.answer_text, NoNum, NoneStr)]
        after == IF existing # <<>> THEN updated ELSE inserted
        answered_count == CountOf(after, r.student_session_id)
        total_questions ==
            Len(SelectSeq(question, LAMBDA x : x.session_id = q.session_id
                                               /\ x.status = "approved"))
        calls == IF generate THEN <<"reference_answers">> ELSE <<>>
        answer_map == IF generate THEN gen ELSE NoneMap
    IN  /\ UNCHANGED studentanswer_interview
        /\ question' = IF generate THEN PersistReferenceAnswers(question, gen)
                       ELSE question
        /\ IF generate /\ ReferenceFailureEscapes(gen)
           THEN /\ resp' = [Error(r, 500, "Failed to submit answer") EXCEPT
                              !.calls = calls, !.answer_map = gen]
                /\ UNCHANGED studentanswer
           ELSE IF existing = <<>> /\ r.fault = "insert"
           THEN /\ resp' = [Error(r, 500, "Failed to save answer") EXCEPT
                              !.calls = calls, !.answer_map = answer_map]
                /\ UNCHANGED studentanswer
           ELSE /\ existing = <<>> =>
                     Len(studentanswer) + Len(studentanswer_interview) < MaxAnswers
                /\ studentanswer' = after
                /\ resp' = [r EXCEPT
                              !.status = 200, !.calls = calls,
                              !.answer_map = answer_map,
                              !.answer_id = IF existing # <<>> THEN existing[1]
                                            ELSE Len(after),
                              !.next_question_available = answered_count < total_questions,
                              !.answered_count = answered_count,
                              !.total_questions = total_questions]

SubmitWrite(r, existing, refResponse) ==
    IF SessionTypeOf(r.student_session_id) = "INTERVIEW"
    THEN SubmitWriteInterview(r, existing)
    ELSE SubmitWriteStandard(r, existing, refResponse)

submit_answer(student_session_id, student_id, question_id, question_interview_id, answer_text, fault, refResponse) ==
    LET r == SubmitRequest(student_session_id, student_id, question_id,
                           question_interview_id, answer_text, fault)
        gate == SubmitGate(r)
    IN  /\ inflight = <<>>
        /\ IF gate[1] # 200
           THEN /\ resp' = Error(r, gate[1], gate[2])
                /\ UNCHANGED <<question, studentanswer, studentanswer_interview>>
           ELSE SubmitWrite(r, ExistingAnswers(r), refResponse)
        /\ UNCHANGED <<session, interviewconfig, question_interview, studentsession,
                       inflight, llm>>

----------------------------------------------------------------------------
(* end_session *)

\* the ids of the rows of a table whose id is in `ids`, in table order
\* (select ... in_(id, ids))
RowsIn(table, ids) ==
    SelectSeq([i \in 1..Len(table) |-> i], LAMBDA i : i \in ids)

\* _overall_from_score of a stored ai_score of studentanswer_interview
OverallFromScore(value) ==
    IF value = NoneMap THEN 0
    ELSE IF "overall_score" \in DOMAIN value /\ value["overall_score"] \notin {0, NoNum}
         THEN value["overall_score"]
         ELSE IF "overall" \in DOMAIN value /\ value["overall"] \notin {0, NoNum}
              THEN value["overall"]
              ELSE 0

\* the mutant: a stored score counts for nothing
ScoreOrZeroAlwaysZero(value) == 0

\* a.get("ai_score") or 0.0 of a stored ai_score of studentanswer
ScoreOrZero(value) == IF value = NoNum THEN 0 ELSE value

\* the calls to the backend of an end_session: the reference-answer batch
\* when `generate`, one evaluation per answer reached, and the overall
\* feedback unless the evaluation pass aborted
EndCalls(generate, evaluations, aborted) ==
    (IF generate THEN <<"reference_answers">> ELSE <<>>)
    \o [i \in 1..evaluations |-> "evaluate"]
    \o (IF aborted THEN <<>> ELSE <<"overall_feedback">>)

\* the same calls among the updates of the answer rows, in program order:
\* every evaluation is followed by the update of its answer, except the last
\* one of a pass that aborted, whose update raised
EndLog(generate, evaluations, aborted) ==
    (IF generate THEN <<"reference_answers">> ELSE <<>>)
    \o [i \in 1..(2 * evaluations - (IF aborted THEN 1 ELSE 0)) |->
           IF i % 2 = 1 THEN "evaluate" ELSE "update_answer"]
    \o (IF aborted THEN <<>> ELSE <<"overall_feedback">>)

\* the mutant: a pass that aborts stores none of its scores
StoredScoresAllOrNothing(requires_evaluation, aborted, fault_at, n) ==
    IF ~requires_evaluation \/ aborted THEN 0 ELSE n

\* the number of answers, in retrieval order, whose evaluation the pass
\* stores: all of them, or those before the fault_at-th, whose update raises
StoredScores(requires_evaluation, aborted, fault_at, n) ==
    IF ~requires_evaluation THEN 0
    ELSE IF aborted THEN fault_at - 1 ELSE n

\* the mutant: no end runs the evaluation pass
RequiresEvaluationNever(table, answers, none) == FALSE

\* any(answer.get("ai_score") is None for answer in answers)
RequiresEvaluation(table, answers, none) ==
    \E i \in DOMAIN answers : table[answers[i]].ai_score = none

\* the mutant: the evaluation pass does without a cv_url
EvaluationCvMissingNever(session_id) == FALSE

\* whether the interview configuration the evaluation pass loads has no
\* cv_url
EvaluationCvMissing(session_id) ==
    ~Truthy(IF session_id \in DOMAIN interviewconfig
            THEN interviewconfig[session_id].cv_url ELSE NoneStr)

\* the mutant: an empty list of answers is not refused
NoAnswersNever(answers) == FALSE

\* whether end has no answer to work on
NoAnswers(answers) == answers = <<>>

\* the standard (PRACTICE/EXAM) branch; evals[i] is the backend's response to
\* the evaluation of the i-th answer
EndStandard(r, refResponse, evals, fbResponse) ==
    LET student_session_id == r.student_session_id
        session_type == SessionTypeOf(student_session_id)
        answers == AnswersOf(student_session_id)
        n == Len(answers)
        questions_dict ==
            RowsIn(question, {studentanswer[answers[i]].question_id : i \in 1..n})
        requires_evaluation == RequiresEvaluation(studentanswer, answers, NoNum)
        missing_reference_ids ==
            SelectSeq(questions_dict,
                      LAMBDA q : ~Truthy(question[q].reference_answer))
        generate == requires_evaluation /\ missing_reference_ids # <<>>
                    /\ session_type \in {"PRACTICE", "INTERVIEW"}
        gen == generate_reference_answers_for_questions(missing_reference_ids,
                                                        refResponse)
        aborted == requires_evaluation /\ r.fault = "answer_update"
                   /\ r.fault_at \in 1..n
        evaluated == StoredScores(requires_evaluation, aborted, r.fault_at, n)
        evaluation(i) == evaluate_answer(evals[i])
        scored ==
            [id \in DOMAIN studentanswer |->
                IF \E i \in 1..evaluated : answers[i] = id
                THEN LET i == CHOOSE i \in 1..evaluated : answers[i] = id
                     IN  [studentanswer[id] EXCEPT
                             !.ai_score = evaluation(i).overall_score,
                             !.ai_feedback = evaluation(i).feedback]
                ELSE studentanswer[id]]
        local_score(i) ==
            IF requires_evaluation THEN evaluation(i).overall_score
            ELSE ScoreOrZero(studentanswer[answers[i]].ai_score)
        total_score == SumSeq([i \in 1..n |-> local_score(i)])
        overall_score == Mean(total_score, n)
        overall_feedback == generate_overall_feedback(fbResponse)
        calls == EndCalls(generate,
                          IF aborted THEN r.fault_at ELSE evaluated, aborted)
        log == EndLog(generate, IF aborted THEN r.fault_at ELSE evaluated, aborted)
        ref_ids == IF generate THEN missing_reference_ids ELSE <<>>
        answer_map == IF generate THEN gen ELSE NoneMap
    IN  /\ UNCHANGED studentanswer_interview
        /\ UNCHANGED question_interview
        /\ IF NoAnswers(answers)
           THEN /\ resp' = Error(r, 400, "No answers found")
                /\ UNCHANGED <<question, studentanswer, studentsession>>
           ELSE /\ question' = IF generate THEN PersistReferenceAnswers(question, gen)
                               ELSE question
                /\ studentanswer' = scored
                /\ IF aborted \/ r.fault = "ss_update"
                   THEN /\ resp' = [Error(r, 500, "Failed to end session") EXCEPT
                                      !.calls = calls, !.log = log,
                                      !.ref_ids = ref_ids,
                                      !.answer_map = answer_map]
                        /\ UNCHANGED studentsession
                   ELSE /\ studentsession' =
                              [studentsession EXCEPT
                                 ![student_session_id].score_total = overall_score,
                                 ![student_session_id].ai_overall_feedback =
                                     overall_feedback]
                        /\ resp' = [r EXCEPT !.status = 200, !.calls = calls,
                                             !.log = log, !.ref_ids = ref_ids,
                                             !.answer_map = answer_map,
                                             !.score_total = overall_score,
                                             !.ai_overall_feedback = overall_feedback]

\* the INTERVIEW branch
EndInterview(r, refResponse, evals, fbResponse) ==
    LET student_session_id == r.student_session_id
        session_id == studentsession[student_session_id].session_id
        answers == AnswersInterviewOf(student_session_id)
        n == Len(answers)
        questions_dict ==
            RowsIn(question_interview,
                   {studentanswer_interview[answers[i]].question_interview_id :
                        i \in 1..n})
        requires_evaluation ==
            RequiresEvaluation(studentanswer_interview, answers, NoneMap)
        missing_reference_ids ==
            SelectSeq(questions_dict,
                      LAMBDA q : ~Truthy(question_interview[q].reference_answer))
        generate == requires_evaluation /\ missing_reference_ids # <<>>
        gen == generate_reference_answers_for_interview(missing_reference_ids,
                                                        refResponse)
        aborted == requires_evaluation /\ r.fault = "answer_update"
                   /\ r.fault_at \in 1..n
        evaluated == StoredScores(requires_evaluation, aborted, r.fault_at, n)
        evaluation(i) == evaluate_answer(evals[i])
        scored ==
            [id \in DOMAIN studentanswer_interview |->
                IF \E i \in 1..evaluated : answers[i] = id
                THEN LET i == CHOOSE i \in 1..evaluated : answers[i] = id
                     IN  [studentanswer_interview[id] EXCEPT
                             !.ai_score = evaluation(i).scores
                                          @@ ("overall_score" :> evaluation(i).overall_score),
                             !.ai_feedback =
                                 [feedback |-> evaluation(i).feedback,
                                  strengths |-> evaluation(i).strengths,
                                  weaknesses |-> evaluation(i).weaknesses]]
                ELSE studentanswer_interview[id]]
        local_score(i) ==
            IF requires_evaluation THEN evaluation(i).overall_score
            ELSE OverallFromScore(studentanswer_interview[answers[i]].ai_score)
        total_score == SumSeq([i \in 1..n |-> local_score(i)])
        overall_score == Mean(total_score, n)
        overall_feedback == generate_overall_feedback(fbResponse)
        calls == EndCalls(generate,
                          IF aborted THEN r.fault_at ELSE evaluated, aborted)
        log == EndLog(generate, IF aborted THEN r.fault_at ELSE evaluated, aborted)
        ref_ids == IF generate THEN missing_reference_ids ELSE <<>>
        answer_map == IF generate THEN gen ELSE NoneMap
    IN  /\ UNCHANGED studentanswer
        /\ UNCHANGED question
        /\ IF NoAnswers(answers)
           THEN /\ resp' = Error(r, 400, "No answers found")
                /\ UNCHANGED <<question_interview, studentanswer_interview,
                               studentsession>>
           ELSE IF requires_evaluation /\ EvaluationCvMissing(session_id)
           THEN /\ resp' = Error(r, 400, "Interview CV is missing, cannot evaluate")
                /\ UNCHANGED <<question_interview, studentanswer_interview,
                               studentsession>>
           ELSE /\ question_interview' =
                      IF generate THEN PersistReferenceAnswers(question_interview, gen)
                      ELSE question_interview
                /\ studentanswer_interview' = scored
                /\ IF aborted \/ r.fault = "ss_update"
                   THEN /\ resp' = [Error(r, 500, "Failed to end session") EXCEPT
                                      !.calls = calls, !.log = log,
                                      !.ref_ids = ref_ids,
                                      !.answer_map = answer_map]
                        /\ UNCHANGED studentsession
                   ELSE /\ studentsession' =
                              [studentsession EXCEPT
                                 ![student_session_id].score_total = overall_score,
                                 ![student_session_id].ai_overall_feedback =
                                     overall_feedback]
                        /\ resp' = [r EXCEPT !.status = 200, !.calls = calls,
                                             !.log = log, !.ref_ids = ref_ids,
                                             !.answer_map = answer_map,
                                             !.score_total = overall_score,
                                             !.ai_overall_feedback = overall_feedback]

end_session(student_session_id, student_id, refResponse, evals, fbResponse, fault, fault_at) ==
    LET r == ([NoResp EXCEPT !.op = "end", !.student_session_id = student_session_id, !.student_id = student_id, !.fault = fault, !.fault_at = fault_at])
        gate == OwnerGate(student_session_id, student_id)
    IN  /\ inflight = <<>>
        /\ IF gate[1] # 200
           THEN /\ resp' = Error(r, gate[1], gate[2])
                /\ UNCHANGED <<question, question_interview, studentsession,
                               studentanswer, studentanswer_interview>>
           ELSE IF SessionTypeOf(student_session_id) = "INTERVIEW"
                THEN EndInterview(r, refResponse, evals, fbResponse)
                ELSE EndStandard(r, refResponse, evals, fbResponse)
        /\ UNCHANGED <<session, interviewconfig, inflight, llm>>

----------------------------------------------------------------------------
(* start_session *)

\* a or b of two time limits: None and 0 are falsy
Or(a, b) == IF a \notin {NoNum, 0} THEN a ELSE b

\* a backend response to the question prompt and, for an interview, the
\* outcome of the ingestion of the CV before it:
\*   kind "ingest_raise"  load_and_extract raises (interview only)
\*   kind "raise"         call_llm_json raises
\*   kind "nokey"         a JSON object without the key questions
\*   kind "ok"            a JSON object whose questions is a list of n items
GenResponse(kind, n) == [kind |-> kind, n |-> n]

GenerationRaised == [raised |-> TRUE, questions |-> <<>>]

\* the rows generate_questions_for_session returns: drafts
generate_questions_for_session(session_id, response) ==
    IF response.kind # "ok" THEN GenerationRaised
    ELSE [raised |-> FALSE,
          questions |-> [i \in 1..response.n |->
                            [session_id |-> session_id, status |-> "draft",
                             reference_answer |-> NoneStr]]]

\* the rows generate_interview_questions returns, numbered from 0; a
\* response without the key questions gives no row
generate_interview_questions(session_id, response) ==
    IF response.kind \in {"ingest_raise", "raise"} THEN GenerationRaised
    ELSE [raised |-> FALSE,
          questions |-> [i \in 1..(IF response.kind = "ok" THEN response.n ELSE 0) |->
                            [session_id |-> session_id, question_index |-> i - 1,
                             reference_answer |-> NoneStr]]]

\* load_and_extract(path_or_url) of utils/cv_ingest.py on the source `name`:
\*   outcome "local"        a local file is read: no temporary file
\*   outcome "remote"       the URL is downloaded to a temporary file, which
\*                          is returned with the text
\*   outcome "raise"        the download fails, or the local file is not
\*                          found: no temporary file exists
\*   outcome "write_raise"  the temporary file is created and writing it
\*                          raises: the file exists and is not returned
load_and_extract(name, outcome) ==
    [raised |-> outcome \in {"raise", "write_raise"},
     tmp |-> IF outcome = "remote" THEN name ELSE NoneStr,
     log |-> IF outcome \in {"remote", "write_raise"}
             THEN <<<<"create", name>>>> ELSE <<>>]

\* the mutant: the temporary files are deleted at the end of the try
CleanupRunsOnReturnOnly(raised) == ~raised

\* whether the cleanup loop runs: it is the finally of the try
CleanupRuns(raised) == TRUE

\* the try and the finally of generate_interview_questions and of
\* generate_reference_answers_for_interview: the log of the temporary files
\* created, appended to tmp_paths ("obtain") and deleted ("unlink")
InterviewIngestion(cv, jd, rest) ==
    LET cv_load == load_and_extract("cv", cv)
        jd_runs == ~cv_load.raised /\ jd # "none"
        jd_load == IF jd_runs THEN load_and_extract("jd", jd)
                   ELSE [raised |-> FALSE, tmp |-> NoneStr, log |-> <<>>]
        tmp_paths == (IF cv_load.raised THEN <<>> ELSE <<cv_load.tmp>>)
                     \o (IF jd_runs /\ ~jd_load.raised THEN <<jd_load.tmp>>
                         ELSE <<>>)
        raised == cv_load.raised \/ jd_load.raised \/ rest # "ok"
        unlinked == IF CleanupRuns(raised) THEN SelectSeq(tmp_paths, Truthy)
                    ELSE <<>>
    IN  [raised |-> raised,
         log |-> cv_load.log
                 \o (IF cv_load.raised THEN <<>> ELSE <<<<"obtain", cv_load.tmp>>>>)
                 \o jd_load.log
                 \o (IF jd_runs /\ ~jd_load.raised
                     THEN <<<<"obtain", jd_load.tmp>>>> ELSE <<>>)
                 \o [i \in DOMAIN unlinked |-> <<"unlink", unlinked[i]>>]]

\* the requests a generation issues: the ingestion of the CV and of the JD
\* of an interview, then the question prompt to the backend
StartCalls(session_type, jd_url, response) ==
    IF session_type = "PRACTICE" THEN <<"questions">>
    ELSE <<"ingest_cv">>
         \o (IF response.kind = "ingest_raise" THEN <<>>
             ELSE (IF Truthy(jd_url) THEN <<"ingest_jd">> ELSE <<>>)
                  \o <<"questions">>)

\* the mutant: a generated question stays a draft
AutoApprovedKeepsDraft(q) == [q EXCEPT !.reference_answer = NoneStr]

\* what start does to a generated question before inserting it
AutoApproved(q) == [q EXCEPT !.status = "approved", !.reference_answer = NoneStr]

\* the mutant: questions are never generated at start
NeedsGenerationNever(rows) == FALSE

\* the mutant: questions are generated whether or not the session has some
NeedsGenerationAlways(rows) == TRUE

\* questions are generated when the session has no question row
NeedsGeneration(rows) == rows = <<>>

\* the mutant: a failed generation is swallowed for every session type
GenerationFailureSwallowed(session_type) == <<200, "">>

\* what a failed generation or insertion does to the request: <<status,
\* error>>, status 200 when start goes on to count the questions
GenerationFailure(session_type) ==
    IF session_type = "INTERVIEW"
    THEN <<500, "Failed to generate interview questions">>
    ELSE <<200, "">>

\* the mutant: the CV is never found missing
InterviewCvMissingNever(session_id) == FALSE

\* whether the interview configuration of the session lacks a cv_url
InterviewCvMissing(session_id) ==
    ~Truthy(IF session_id \in DOMAIN interviewconfig
            THEN interviewconfig[session_id].cv_url ELSE NoneStr)

\* the rows inserted by a loop of inserts whose fault_at-th insert raises
InsertedPrefix(rows, fault_at) ==
    IF fault_at \in 1..Len(rows) THEN SubSeq(rows, 1, fault_at - 1) ELSE rows

\* the mutant: a question counts whatever its status
EligibleQuestionsOfAnyStatus(table, session_id) ==
    Positions({i \in 1..Len(table) : table[i].session_id = session_id})

\* the ids of the rows of `table` that are questions of a session students
\* may see
EligibleQuestionsOf(table, session_id) ==
    Positions({i \in 1..Len(table) : table[i].session_id = session_id /\ table[i].status \in {"approved", "answers_approved"}})

\* the checks of start up to the generation: <<status, error>>
StartGate(student_session_id, student_id) ==
    LET owner == OwnerGate(student_session_id, student_id) IN
    IF owner[1] # 200 THEN owner
    ELSE IF studentsession[student_session_id].session_id \notin DOMAIN session
    THEN <<404, "Session not found">>
    ELSE LET s == session[studentsession[student_session_id].session_id] IN
         IF s.session_type = "EXAM" /\ s.status # "ready"
         THEN <<400, "Session is not ready">>
         ELSE IF s.session_type \in {"PRACTICE", "INTERVIEW"}
                 /\ s.status \notin {"created", "ready"}
              THEN <<400, "Session is not available">>
              ELSE <<200, "">>

\* the answer of a start that counted total_questions questions
Started(r, calls, total_questions, time_limit) ==
    IF total_questions = 0
    THEN [Error(r, 400, "No questions available for this session") EXCEPT
             !.calls = calls]
    ELSE [r EXCEPT !.status = 200, !.calls = calls, !.session_started = TRUE,
                   !.total_questions = total_questions,
                   !.time_limit = time_limit]

\* the ids of the question rows of the session of a student session, of any
\* status: what the existence lookup of start returns
StartRows(student_session_id) ==
    LET session_id == studentsession[student_session_id].session_id IN
    IF SessionTypeOf(student_session_id) = "INTERVIEW"
    THEN InterviewQuestionsOf(session_id)
    ELSE Positions({i \in 1..Len(question) : question[i].session_id = session_id})

\* the EXAM and PRACTICE branch after the existence lookup returned `rows`
StartStandard(r, rows, genResponse) ==
    LET session_id == studentsession[r.student_session_id].session_id
        s == session[session_id]
        generate == s.session_type = "PRACTICE" /\ NeedsGeneration(rows)
        gen == generate_questions_for_session(session_id, genResponse)
        approved == [i \in DOMAIN gen.questions |-> AutoApproved(gen.questions[i])]
        inserted == IF generate THEN InsertedPrefix(approved, r.fault_at) ELSE <<>>
        failed == generate /\ (gen.raised \/ r.fault_at \in 1..Len(approved))
        outcome == IF failed THEN GenerationFailure(s.session_type) ELSE <<200, "">>
        after == question \o inserted
        calls == IF generate THEN StartCalls("PRACTICE", NoneStr, genResponse)
                 ELSE <<>>
    IN  /\ question' = after
        /\ UNCHANGED question_interview
        /\ resp' = IF outcome[1] # 200
                   THEN [Error(r, outcome[1], outcome[2]) EXCEPT !.calls = calls]
                   ELSE Started(r, calls,
                                Len(EligibleQuestionsOf(after, session_id)),
                                Or(s.time_limit, NoNum))

\* the INTERVIEW branch after the existence lookup returned `rows`; the
\* count after the inserts and the final count read the table again
StartInterview(r, rows, genResponse) ==
    LET session_id == studentsession[r.student_session_id].session_id
        s == session[session_id]
        stored == InterviewQuestionsOf(session_id)
        generate == NeedsGeneration(rows)
        config == interviewconfig[session_id]
        gen == generate_interview_questions(session_id, genResponse)
        inserted == InsertedPrefix(gen.questions, r.fault_at)
        failed == gen.raised \/ r.fault_at \in 1..Len(gen.questions)
        outcome == IF failed THEN GenerationFailure(s.session_type) ELSE <<200, "">>
        calls == StartCalls("INTERVIEW", config.jd_url, genResponse)
    IN  /\ UNCHANGED question
        /\ IF ~generate
           THEN /\ UNCHANGED question_interview
                /\ resp' = Started(r, <<>>, Len(stored), Or(s.time_limit, NoNum))
           ELSE IF InterviewCvMissing(session_id)
           THEN /\ UNCHANGED question_interview
                /\ resp' = Error(r, 400, "Interview CV is missing")
           ELSE /\ question_interview' = question_interview \o inserted
                /\ resp' = IF outcome[1] # 200
                           THEN [Error(r, outcome[1], outcome[2]) EXCEPT
                                    !.calls = calls]
                           ELSE IF stored \o inserted = <<>> /\ ~failed
                           THEN [Error(r, 500, "Failed to generate interview questions")
                                    EXCEPT !.calls = calls]
                           ELSE Started(r, calls, Len(stored) + Len(inserted),
                                        Or(s.time_limit, config.time_limit))

\* genResponse is the backend's response should questions be generated,
\* fault_at the insert of a generated question that raises (0: none)
start_session(student_session_id, student_id, genResponse, fault_at) ==
    LET r == ([NoResp EXCEPT !.op = "start", !.student_session_id = student_session_id, !.student_id = student_id, !.gen = genResponse.kind, !.generated = genResponse.n, !.fault = IF fault_at > 0 THEN "insert" ELSE "none", !.fault_at = fault_at])
        gate == StartGate(student_session_id, student_id)
    IN  /\ inflight = <<>>
        /\ IF gate[1] # 200
           THEN /\ resp' = Error(r, gate[1], gate[2])
                /\ UNCHANGED <<question, question_interview>>
           ELSE IF SessionTypeOf(student_session_id) = "INTERVIEW"
                THEN StartInterview(r, StartRows(student_session_id), genResponse)
                ELSE StartStandard(r, StartRows(student_session_id), genResponse)
        /\ UNCHANGED <<session, interviewconfig, studentsession, studentanswer,
                       studentanswer_interview, inflight, llm>>

----------------------------------------------------------------------------
(* get_student_session *)

\* the results of a student session: its score, its feedback and (as
\* answered_count) the number of its formatted answers
get_student_session(student_session_id, student_id) ==
    LET r == ([NoResp EXCEPT !.op = "result", !.student_session_id = student_session_id, !.student_id = student_id])
        gate == OwnerGate(student_session_id, student_id)
    IN  /\ inflight = <<>>
        /\ IF gate[1] # 200
           THEN resp' = Error(r, gate[1], gate[2])
           ELSE resp' =
                  [r EXCEPT
                     !.status = 200,
                     !.session_id = studentsession[student_session_id].session_id,
                     !.score_total = studentsession[student_session_id].score_total,
                     !.ai_overall_feedback =
                         studentsession[student_session_id].ai_overall_feedback,
                     !.answered_count =
                         IF SessionTypeOf(student_session_id) = "INTERVIEW"
                         THEN Len(AnswersInterviewOf(student_session_id))
                         ELSE Len(AnswersOf(student_session_id))]
        /\ UNCHANGED <<tables, inflight, llm>>

----------------------------------------------------------------------------
(* get_history *)

\* [s[Len(s)], ..., s[1]]
Reverse(s) == [i \in 1..Len(s) |-> s[Len(s) + 1 - i]]

\* the mutant: the history lists the student sessions of every student
HistoryOfAnyStudent(student_id) ==
    Reverse(Positions(DOMAIN studentsession))

\* the ids of the student sessions of a student, latest join first (join_time
\* grows with the id)
HistoryOf(student_id) ==
    Reverse(Positions({i \in 1..Len(studentsession) : studentsession[i].student_id = student_id}))

\* the history of a student: one entry per student session
get_history(student_id) ==
    LET r == [NoResp EXCEPT !.op = "history", !.student_id = student_id]
        student_sessions == HistoryOf(student_id)
    IN  /\ inflight = <<>>
        /\ resp' =
              [r EXCEPT
                 !.status = 200,
                 !.history =
                     [i \in DOMAIN student_sessions |->
                         [student_session_id |-> student_sessions[i],
                          session_id |-> studentsession[student_sessions[i]].session_id,
                          session_type |->
                              session[studentsession[student_sessions[i]].session_id].session_type,
                          score_total |-> studentsession[student_sessions[i]].score_total]]]
        /\ UNCHANGED <<tables, inflight, llm>>

----------------------------------------------------------------------------
(* call_llm_json and safe_parse_llm_output (extensions/llm_core.py)        *)
(*                                                                         *)
(* A raw text of the backend is a sequence of tokens: a code fence, white  *)
(* space, a JSON document, a JSON document with an invalid escape, or text *)
(* that is no JSON.                                                        *)

Blank == " "
\* a document with a backslash before a character that is no escape, and
\* the document the repair makes of it
BadEscape == "{lone backslash}"
Repaired == "{doubled backslash}"

\* raw.strip()
RECURSIVE Strip(_)
Strip(raw) ==
    IF raw = <<>> THEN <<>>
    ELSE IF Head(raw) = Blank THEN Strip(Tail(raw))
    ELSE IF raw[Len(raw)] = Blank THEN Strip(SubSeq(raw, 1, Len(raw) - 1))
    ELSE raw

\* the first substitution: the fences that open or close a line are removed
Unfenced(raw) == SelectSeq(raw, LAMBDA t : t \notin {"<fence json>", "<fence>"})

\* the second substitution: a lone backslash is doubled
RepairEscapes(raw) == [i \in DOMAIN raw |-> IF raw[i] = BadEscape THEN Repaired ELSE raw[i]]

\* json.loads succeeds on one document, with white space around it
Loads(cleaned) ==
    IF Len(cleaned) = 1 /\ cleaned[1] \in {"{questions}", "{answers}", Repaired}
    THEN [ok |-> TRUE, value |-> cleaned[1]]
    ELSE [ok |-> FALSE, value |-> "JSONDecodeError"]

\* the parsed document, or the ValueError raised
safe_parse_llm_output(raw) ==
    LET parsed == Loads(RepairEscapes(Strip(Unfenced(Strip(raw))))) IN
    IF parsed.ok THEN parsed ELSE [ok |-> FALSE, value |-> "ParseError"]

\* an invocation of the backend: it raises, or returns a response whose
\* text is None or a raw text
Raises == [kind |-> "raise", text |-> <<>>]
NoText == [kind |-> "none", text |-> <<>>]
Text(raw) == [kind |-> "text", text |-> raw]

\* the body of the try block for one invocation: the parsed document, or
\* the exception raised
Attempt(outcome) ==
    IF outcome.kind = "raise" THEN [ok |-> FALSE, value |-> "BackendError"]
    ELSE IF Strip(outcome.text) = <<>>
         THEN [ok |-> FALSE, value |-> "EmptyResponse"]
         ELSE safe_parse_llm_output(Strip(outcome.text))

\* an exception object: its type and the attempt that raised it
NoError == [type |-> "None", attempt |-> -1]

NoCall ==
    [pc |-> "idle", max_retries |-> 0, retry_delay |-> 0, attempt |-> 0,
     calls |-> <<>>, sleeps |-> <<>>, last_error |-> NoError,
     result |-> "None", error |-> NoError]

\* the mutant: the delay does not grow
BackoffConstant(retry_delay, attempt) == retry_delay

\* the delay slept after the failure of attempt `attempt` (from 0)
Backoff(retry_delay, attempt) == retry_delay * (2 ^ attempt)

\* the mutant: no attempt is the last one
LastAttemptNever(attempt, max_retries) == FALSE

\* whether an attempt is the last of the loop
LastAttempt(attempt, max_retries) == ~(attempt < max_retries - 1)

\* call_llm_json is entered
LLMCall(max_retries, retry_delay) ==
    /\ llm.pc = "idle"
    /\ llm' = [NoCall EXCEPT !.pc = "loop", !.max_retries = max_retries,
                             !.retry_delay = retry_delay]
    /\ UNCHANGED <<tables, inflight, resp>>

\* one iteration of the loop: the backend is invoked and answers `outcome`
LLMAttempt(outcome) ==
    LET tried == Attempt(outcome)
        error == [type |-> tried.value, attempt |-> llm.attempt]
    IN  /\ llm.pc = "loop"
        /\ llm.attempt < llm.max_retries
        /\ llm' =
             IF tried.ok
             THEN [llm EXCEPT !.pc = "returned", !.calls = Append(@, outcome),
                              !.result = tried.value]
             ELSE IF LastAttempt(llm.attempt, llm.max_retries)
             THEN [llm EXCEPT !.pc = "raised", !.calls = Append(@, outcome),
                              !.last_error = error, !.error = error]
             ELSE [llm EXCEPT !.calls = Append(@, outcome),
                              !.last_error = error,
                              !.sleeps = Append(@, Backoff(llm.retry_delay,
                                                           llm.attempt)),
                              !.attempt = @ + 1]
        /\ UNCHANGED <<tables, inflight, resp>>

\* the loop ends without an iteration (max_retries is 0): raise last_error
\* with last_error None is a TypeError
LLMFallThrough ==
    /\ llm.pc = "loop"
    /\ ~(llm.attempt < llm.max_retries)
    /\ llm' = [llm EXCEPT !.pc = "raised",
                          !.error = IF llm.last_error = NoError
                                    THEN [type |-> "TypeError", attempt |-> -1]
                                    ELSE llm.last_error]
    /\ UNCHANGED <<tables, inflight, resp>>

----------------------------------------------------------------------------
(* Initial states: the sessions, interview configurations and questions    *)
(* created upstream; nobody has joined.                                    *)

\* a deployment with one session of every kind the join checks tell apart
GateSession ==
    (1 :> [session_type |-> "EXAM", status |-> "ready", password |-> "abc",
           time_limit |-> NoNum]) @@
    (2 :> [session_type |-> "EXAM", status |-> "ready", password |-> NoneStr,
           time_limit |-> NoNum]) @@
    (3 :> [session_type |-> "EXAM", status |-> "created", password |-> "abc",
           time_limit |-> NoNum]) @@
    (4 :> [session_type |-> "PRACTICE", status |-> "created", password |-> NoneStr,
           time_limit |-> NoNum]) @@
    (5 :> [session_type |-> "PRACTICE", status |-> "closed", password |-> NoneStr,
           time_limit |-> NoNum]) @@
    (6 :> [session_type |-> "INTERVIEW", status |-> "ready", password |-> NoneStr,
           time_limit |-> NoNum]) @@
    (7 :> [session_type |-> "EXAM", status |-> "ready", password |-> "",
           time_limit |-> NoNum])

\* two deployments with one PRACTICE session: one whose questions are all
\* approved, one with a question still in draft
PracticeSession ==
    (1 :> [session_type |-> "PRACTICE", status |-> "created", password |-> NoneStr,
           time_limit |-> NoNum])

PracticeQuestion ==
    << [session_id |-> 1, status |-> "approved", reference_answer |-> NoneStr],
       [session_id |-> 1, status |-> "answers_approved", reference_answer |-> "ref"] >>

\* a deployment with one INTERVIEW session, its configuration and questions
InterviewSession ==
    (1 :> [session_type |-> "INTERVIEW", status |-> "ready", password |-> NoneStr,
           time_limit |-> NoNum])

InterviewConfig ==
    (1 :> [cv_url |-> "cv.pdf", jd_url |-> NoneStr, time_limit |-> 30])

InterviewQuestion ==
    << [session_id |-> 1, question_index |-> 0, reference_answer |-> NoneStr],
       [session_id |-> 1, question_index |-> 1, reference_answer |-> NoneStr] >>

Empty ==
    /\ studentsession = <<>>
    /\ studentanswer = <<>>
    /\ studentanswer_interview = <<>>
    /\ inflight = <<>>
    /\ resp = NoResp
    /\ llm = NoCall

InitGate ==
    /\ session = GateSession
    /\ interviewconfig = <<>>
    /\ question = <<>>
    /\ question_interview = <<>>
    /\ Empty

InitPractice ==
    /\ session = PracticeSession
    /\ interviewconfig = <<>>
    /\ question = PracticeQuestion
    /\ question_interview = <<>>
    /\ Empty

InitDraft ==
    /\ session = PracticeSession
    /\ interviewconfig = <<>>
    /\ question = (<< [session_id |-> 1, status |-> "approved", reference_answer |-> NoneStr], [session_id |-> 1, status |-> "draft", reference_answer |-> "ref"] >>)
    /\ question_interview = <<>>
    /\ Empty

InitInterview ==
    /\ session = InterviewSession
    /\ interviewconfig = InterviewConfig
    /\ question = <<>>
    /\ question_interview = InterviewQuestion
    /\ Empty

Init == InitPractice \/ InitDraft \/ InitInterview

\* deployments whose questions are still to be generated: a PRACTICE
\* session, an INTERVIEW session with its configuration, and one whose
\* configuration has no cv_url
InitFreshPractice ==
    /\ session = PracticeSession
    /\ interviewconfig = <<>>
    /\ question = <<>>
    /\ question_interview = <<>>
    /\ Empty

InitFreshInterview ==
    /\ session = InterviewSession
    /\ interviewconfig = InterviewConfig
    /\ question = <<>>
    /\ question_interview = <<>>
    /\ Empty

InterviewConfigNoCv ==
    (1 :> [cv_url |-> NoneStr, jd_url |-> NoneStr, time_limit |-> 30])

InitInterviewNoCv ==
    /\ session = InterviewSession
    /\ interviewconfig = InterviewConfigNoCv
    /\ question = <<>>
    /\ question_interview = <<>>
    /\ Empty

\* an INTERVIEW session whose questions were created upstream and whose
\* configuration has no cv_url
InitInterviewSeededNoCv ==
    /\ session = InterviewSession
    /\ interviewconfig = InterviewConfigNoCv
    /\ question = <<>>
    /\ question_interview = InterviewQuestion
    /\ Empty

InitExam ==
    /\ session = ((1 :> [session_type |-> "EXAM", status |-> "ready", password |-> "abc", time_limit |-> 45]) @@ (2 :> [session_type |-> "EXAM", status |-> "ready", password |-> NoneStr, time_limit |-> 45]))
    /\ interviewconfig = <<>>
    /\ question = (<< [session_id |-> 1, status |-> "draft", reference_answer |-> NoneStr], [session_id |-> 2, status |-> "approved", reference_answer |-> "ref"] >>)
    /\ question_interview = <<>>
    /\ Empty

InitClosed ==
    /\ session = ((1 :> [session_type |-> "PRACTICE", status |-> "closed", password |-> NoneStr, time_limit |-> NoNum]))
    /\ interviewconfig = <<>>
    /\ question = PracticeQuestion
    /\ question_interview = <<>>
    /\ studentsession = <<NewStudentSession(1, 1)>>
    /\ studentanswer = <<>>
    /\ studentanswer_interview = <<>>
    /\ inflight = <<>>
    /\ resp = NoResp
    /\ llm = NoCall

InitStart ==
    \/ InitFreshPractice \/ InitFreshInterview \/ InitInterviewNoCv
    \/ InitInterviewSeededNoCv \/ InitExam \/ InitClosed

InitShuffledInterview ==
    /\ session = InterviewSession
    /\ interviewconfig = InterviewConfig
    /\ question = <<>>
    /\ question_interview = (<< [session_id |-> 1, question_index |-> 1, reference_answer |-> NoneStr], [session_id |-> 1, question_index |-> 0, reference_answer |-> NoneStr] >>)
    /\ Empty

InitAccess == Init \/ InitFreshPractice \/ InitFreshInterview \/ InitShuffledInterview

\* no deployment: call_llm_json alone
InitLLM ==
    /\ session = <<>>
    /\ interviewconfig = <<>>
    /\ question = <<>>
    /\ question_interview = <<>>
    /\ Empty

----------------------------------------------------------------------------
(* Requests *)

\* backend responses to the reference-answer prompt
RefInputs ==
    { RefResponse("raise", <<>>),
      RefResponse("ok", <<RefItem(TRUE, 0, "gen")>>),
      RefResponse("ok", <<RefItem(FALSE, 0, ""), RefItem(TRUE, 1, "gen")>>) }

\* backend responses to the evaluation prompt
EvalInputs ==
    { EvalResponse("raise", FALSE, NoNum, <<>>, ""),
      EvalResponse("ok", TRUE, F(8), [c \in Criteria |-> F(7)], "good") }

\* every join request, against the deployment of InitGate
JoinAny ==
    \E session_id \in DOMAIN GateSession \cup {0, Len(GateSession) + 2},
       student_id \in Students, password \in {"", "abc", "bad"},
       fault \in {"none", "insert"} :
        join_session(session_id, student_id, password, fault)

\* a participant joins a session of the deployment
Join ==
    \E session_id \in DOMAIN session, student_id \in {1} :
        join_session(session_id, student_id, "", "none")

Owner(student_session_id) == studentsession[student_session_id].student_id

\* the owner of a student session asks for its next question
NextQuestion ==
    \E student_session_id \in DOMAIN studentsession :
        get_next_question(student_session_id, Owner(student_session_id))

\* the question references of a well-formed answer to the student session
QuestionRefs(student_session_id) ==
    IF SessionTypeOf(student_session_id) = "INTERVIEW"
    THEN {0} \X (1..Len(question_interview))
    ELSE (1..Len(question)) \X {0}

\* the owner of a student session answers one of the questions
Submit ==
    \E student_session_id \in DOMAIN studentsession :
        \E ids \in QuestionRefs(student_session_id), answer_text \in {"a1", "a2"} :
            \E refResponse \in (IF SessionTypeOf(student_session_id) = "PRACTICE" /\ ~Truthy(question[ids[1]].reference_answer)
                                THEN RefInputs ELSE {RefResponse("raise", <<>>)}) :
                submit_answer(student_session_id, Owner(student_session_id),
                              ids[1], ids[2], answer_text, "none", refResponse)

\* the number of answers of a student session
AnswersToEnd(student_session_id) ==
    IF SessionTypeOf(student_session_id) = "INTERVIEW"
    THEN Len(AnswersInterviewOf(student_session_id))
    ELSE Len(AnswersOf(student_session_id))

\* the number of evaluations an end request of the student session asks the
\* backend for when nothing fails
EvaluationsOf(student_session_id) ==
    IF SessionTypeOf(student_session_id) = "INTERVIEW"
    THEN IF \E a \in Range(AnswersInterviewOf(student_session_id)) :
                studentanswer_interview[a].ai_score = NoneMap
         THEN Len(AnswersInterviewOf(student_session_id)) ELSE 0
    ELSE IF \E a \in Range(AnswersOf(student_session_id)) :
                studentanswer[a].ai_score = NoNum
         THEN Len(AnswersOf(student_session_id)) ELSE 0

\* whether an end request of the student session asks the backend for
\* reference answers
ReferencesOf(student_session_id) ==
    IF SessionTypeOf(student_session_id) = "INTERVIEW"
    THEN \E a \in Range(AnswersInterviewOf(student_session_id)) :
            ~Truthy(question_interview[
                        studentanswer_interview[a].question_interview_id].reference_answer)
    ELSE /\ SessionTypeOf(student_session_id) = "PRACTICE"
         /\ \E a \in Range(AnswersOf(student_session_id)) :
               ~Truthy(question[studentanswer[a].question_id].reference_answer)

\* the owner of a student session ends it; the backend answers each request
\* in one of the ways above
End ==
    \E student_session_id \in DOMAIN studentsession :
        LET n == EvaluationsOf(student_session_id)
            m == AnswersToEnd(student_session_id)
        IN
        \E refResponse \in (IF n > 0 /\ ReferencesOf(student_session_id)
                            THEN RefInputs ELSE {RefResponse("raise", <<>>)}),
           evals \in [1..n -> EvalInputs],
           fbResponse \in (IF m = 0 THEN {"raise"} ELSE {"raise", "well done"}) :
            end_session(student_session_id, Owner(student_session_id),
                        refResponse, evals, fbResponse, "none", 0)

\* the same, and the storage fails during the request
EndFails ==
    \E student_session_id \in DOMAIN studentsession :
        LET n == EvaluationsOf(student_session_id) IN
        \E evals \in [1..n -> EvalInputs], fault \in {<<"ss_update", 0>>} \cup {<<"answer_update", k>> : k \in 1..n} :
            /\ AnswersToEnd(student_session_id) > 0
            /\ end_session(student_session_id, Owner(student_session_id),
                           RefResponse("raise", <<>>), evals, "raise",
                           fault[1], fault[2])

Next == Join \/ NextQuestion \/ Submit \/ End \/ EndFails

Spec == Init /\ [][Next]_vars

\* the join checks alone, over every kind of session
NextGate == JoinAny

SpecGate == InitGate /\ [][NextGate]_vars

----------------------------------------------------------------------------
(* Concurrent requests: a join, an answer or a start is served in several   *)
(* storage calls, the lookup and the writes, and other requests run between *)
(* the two.                                                                 *)

Remove(s, i) == SubSeq(s, 1, i - 1) \o SubSeq(s, i + 1, Len(s))

\* a join request up to and including its existence lookup
JoinLookup(session_id, student_id, password) ==
    LET r == JoinRequest(session_id, student_id, password, "none")
        gate == JoinGate(session_id, password)
    IN  /\ Len(inflight) < MaxInFlight
        /\ IF gate[1] # 200
           THEN /\ resp' = Error(r, gate[1], gate[2])
                /\ UNCHANGED inflight
           ELSE /\ inflight' =
                      Append(inflight,
                             [r |-> r,
                              existing |-> ExistingStudentSessions(session_id,
                                                                   student_id)])
                /\ UNCHANGED resp
        /\ UNCHANGED <<tables, llm>>

\* the rest of the i-th request in flight, a join
JoinFinish(i) ==
    /\ inflight[i].r.op = "join"
    /\ JoinWrite(inflight[i].r, inflight[i].existing)
    /\ inflight' = Remove(inflight, i)
    /\ UNCHANGED <<session, interviewconfig, question, question_interview,
                   studentanswer, studentanswer_interview, llm>>

\* an answer request up to and including its "already answered" lookup
SubmitLookup(student_session_id, student_id, question_id, question_interview_id, answer_text) ==
    LET r == SubmitRequest(student_session_id, student_id, question_id,
                           question_interview_id, answer_text, "none")
        gate == SubmitGate(r)
    IN  /\ Len(inflight) < MaxInFlight
        /\ IF gate[1] # 200
           THEN /\ resp' = Error(r, gate[1], gate[2])
                /\ UNCHANGED inflight
           ELSE /\ inflight' = Append(inflight,
                                      [r |-> r, existing |-> ExistingAnswers(r)])
                /\ UNCHANGED resp
        /\ UNCHANGED <<tables, llm>>

\* the rest of the i-th request in flight, an answer
SubmitFinish(i, refResponse) ==
    /\ inflight[i].r.op = "answer"
    /\ SubmitWrite(inflight[i].r, inflight[i].existing, refResponse)
    /\ inflight' = Remove(inflight, i)
    /\ UNCHANGED <<session, interviewconfig, question_interview, studentsession, llm>>

BeginJoin ==
    \E session_id \in DOMAIN session, student_id \in Students :
        JoinLookup(session_id, student_id, "")

FinishJoin == \E i \in DOMAIN inflight : JoinFinish(i)

\* a start request up to and including its lookup of the session's questions
BeginStart ==
    \E student_session_id \in DOMAIN studentsession :
        LET student_id == Owner(student_session_id)
            r == [NoResp EXCEPT !.op = "start",
                                !.student_session_id = student_session_id,
                                !.student_id = student_id]
            gate == StartGate(student_session_id, student_id)
        IN  /\ Len(inflight) < MaxInFlight
            /\ IF gate[1] # 200
               THEN /\ resp' = Error(r, gate[1], gate[2])
                    /\ UNCHANGED inflight
               ELSE /\ inflight' = Append(inflight,
                                          [r |-> r,
                                           existing |-> StartRows(student_session_id)])
                    /\ UNCHANGED resp
            /\ UNCHANGED <<tables, llm>>

\* the rest of a start request in flight: the generation, should the lookup
\* have found no question, the inserts and the count
FinishStart ==
    \E i \in DOMAIN inflight :
        LET r == [inflight[i].r EXCEPT !.gen = "ok", !.generated = 1]
            genResponse == GenResponse("ok", 1)
        IN  /\ r.op = "start"
            /\ IF SessionTypeOf(r.student_session_id) = "INTERVIEW"
               THEN StartInterview(r, inflight[i].existing, genResponse)
               ELSE StartStandard(r, inflight[i].existing, genResponse)
            /\ inflight' = Remove(inflight, i)
            /\ UNCHANGED <<session, interviewconfig, studentsession, studentanswer,
                           studentanswer_interview, llm>>

BeginSubmit ==
    \E student_session_id \in DOMAIN studentsession :
        \E ids \in QuestionRefs(student_session_id) :
            SubmitLookup(student_session_id, Owner(student_session_id),
                         ids[1], ids[2], "a1")

FinishSubmit ==
    \E i \in DOMAIN inflight :
        SubmitFinish(i, RefResponse("ok", <<RefItem(TRUE, 0, "gen")>>))

NextRace ==
    BeginJoin \/ FinishJoin \/ BeginSubmit \/ FinishSubmit \/ BeginStart \/ FinishStart

SpecRace == InitAccess /\ [][NextRace]_vars

----------------------------------------------------------------------------
(* Starting a session: joins by both students, starts, questions, answers  *)

\* backend responses to the question prompt
GenInputs(session_type) ==
    {GenResponse("raise", 0), GenResponse("nokey", 0)}
    \cup {GenResponse("ok", n) : n \in 0..MaxQuestions}
    \cup (IF session_type = "INTERVIEW" THEN {GenResponse("ingest_raise", 0)}
          ELSE {})

\* whether a start of the student session would generate questions
StartGenerates(student_session_id) ==
    LET session_id == studentsession[student_session_id].session_id IN
    /\ StartGate(student_session_id, Owner(student_session_id))[1] = 200
    /\ \/ /\ SessionTypeOf(student_session_id) = "PRACTICE"
          /\ \A i \in 1..Len(question) : question[i].session_id # session_id
       \/ /\ SessionTypeOf(student_session_id) = "INTERVIEW"
          /\ InterviewQuestionsOf(session_id) = <<>>
          /\ ~InterviewCvMissing(session_id)

\* a student joins a session of the deployment, with or without a password
JoinStudents ==
    \E session_id \in DOMAIN session, student_id \in Students,
       password \in {"", "abc"} :
        join_session(session_id, student_id, password, "none")

\* the owner of a student session starts it; the backend answers the
\* question prompt, and an insert of a generated question may raise
Start ==
    \E student_session_id \in DOMAIN studentsession :
        \E genResponse \in (IF StartGenerates(student_session_id)
                            THEN GenInputs(SessionTypeOf(student_session_id))
                            ELSE {GenResponse("raise", 0)}) :
            \E fault_at \in 0..genResponse.n :
                start_session(student_session_id, Owner(student_session_id),
                              genResponse, fault_at)

\* the owner of a student session answers one of the questions; the backend
\* raises should a reference answer be asked for
Answer ==
    \E student_session_id \in DOMAIN studentsession :
        \E ids \in QuestionRefs(student_session_id) :
            submit_answer(student_session_id, Owner(student_session_id),
                          ids[1], ids[2], "a1", "none", RefResponse("raise", <<>>))

NextStart == JoinStudents \/ Start \/ NextQuestion \/ Answer

SpecStart == InitStart /\ [][NextStart]_vars

----------------------------------------------------------------------------
(* Requests of any student on any student session *)

StartAny ==
    \E student_session_id \in DOMAIN studentsession, student_id \in Students :
        start_session(student_session_id, student_id, GenResponse("ok", 1), 0)

NextQuestionAny ==
    \E student_session_id \in DOMAIN studentsession, student_id \in Students :
        get_next_question(student_session_id, student_id)

\* an answer, well formed or lacking its question or its text, short or long
SubmitAny ==
    \E student_session_id \in DOMAIN studentsession, student_id \in Students :
        \E ids \in QuestionRefs(student_session_id) \cup {<<0, 0>>},
           answer_text \in {"", "a1", LongText} :
            \E refResponse \in {RefResponse("raise", <<>>),
                                RefResponse("ok", <<RefItem(TRUE, 0, "gen")>>)} :
                submit_answer(student_session_id, student_id, ids[1], ids[2],
                              answer_text, "none", refResponse)

EndAny ==
    \E student_session_id \in DOMAIN studentsession, student_id \in Students :
        end_session(student_session_id, student_id,
                    RefResponse("ok", <<RefItem(TRUE, 0, "gen")>>),
                    [i \in 1..AnswersToEnd(student_session_id) |->
                        EvalResponse("ok", TRUE, F(8), [c \in Criteria |-> F(7)],
                                     "good")],
                    "well done", "none", 0)

ResultAny ==
    \E student_session_id \in DOMAIN studentsession \cup {MaxStudentSessions + 2},
       student_id \in Students :
        get_student_session(student_session_id, student_id)

HistoryAny == \E student_id \in Students : get_history(student_id)

NextAccess ==
    Join \/ StartAny \/ NextQuestionAny \/ SubmitAny \/ EndAny \/ ResultAny \/ HistoryAny

SpecAccess == InitAccess /\ [][NextAccess]_vars

----------------------------------------------------------------------------
(* Calls of call_llm_json *)

Call ==
    \E max_retries \in 0..MaxRetries, retry_delay \in {1, 2} :
        LLMCall(max_retries, retry_delay)

Try == \E outcome \in ({ Raises, NoText, Text(<<Blank>>), Text(<<"junk">>), Text(<<"{questions}", "junk">>), Text(<<"{questions}">>), Text(<<"<fence json>", "{answers}", "<fence>">>), Text(<<Blank, BadEscape, Blank>>) }) : LLMAttempt(outcome)

NextLLM == Call \/ Try \/ LLMFallThrough

SpecLLM == InitLLM /\ [][NextLLM]_vars

----------------------------------------------------------------------------
(* Ending a session: a participant joins, answers and ends, and the backend  *)
(* answers the evaluation prompt inside and outside its schema               *)

\* backend responses to the evaluation prompt: a failed call, the scores of
\* the prompt's schema, and a zero overall score beside a scores map with a
\* key overall
EvalAnswers ==
    { EvalResponse("raise", FALSE, NoNum, <<>>, ""),
      EvalResponse("ok", TRUE, F(8), [c \in Criteria |-> F(7)], "good"),
      EvalResponse("ok", TRUE, 0,
                   ("overall" :> F(6)) @@ [c \in Criteria |-> F(7)], "poor") }

InitOpenExam ==
    /\ session = ((1 :> [session_type |-> "EXAM", status |-> "ready", password |-> NoneStr, time_limit |-> 45]))
    /\ interviewconfig = <<>>
    /\ question = PracticeQuestion
    /\ question_interview = <<>>
    /\ Empty

\* an INTERVIEW session whose configuration lost its cv_url after student 1
\* answered the first question and ended
InitInterviewEndedNoCv ==
    /\ session = InterviewSession
    /\ interviewconfig = InterviewConfigNoCv
    /\ question = <<>>
    /\ question_interview = InterviewQuestion
    /\ studentsession =
          <<[NewStudentSession(1, 1) EXCEPT !.score_total = F(8),
                                            !.ai_overall_feedback = "well done"]>>
    /\ studentanswer = <<>>
    /\ studentanswer_interview =
          <<[student_session_id |-> 1, question_interview_id |-> 1,
             answer_text |-> "a1",
             ai_score |-> [c \in Criteria |-> F(7)] @@ ("overall_score" :> F(8)),
             ai_feedback |-> [feedback |-> "good", strengths |-> <<>>,
                              weaknesses |-> <<>>]]>>
    /\ inflight = <<>>
    /\ resp = NoResp
    /\ llm = NoCall

InitEnd ==
    \/ InitPractice \/ InitInterview \/ InitInterviewSeededNoCv \/ InitOpenExam
    \/ InitInterviewEndedNoCv

\* the owner of a student session ends it and the storage does not fail
EndEvaluates ==
    \E student_session_id \in DOMAIN studentsession :
        LET n == EvaluationsOf(student_session_id) IN
        \E refResponse \in (IF n > 0 /\ ReferencesOf(student_session_id)
                            THEN RefInputs ELSE {RefResponse("raise", <<>>)}),
           evals \in [1..n -> EvalAnswers] :
            end_session(student_session_id, Owner(student_session_id),
                        refResponse, evals, "well done", "none", 0)

NextEnd == Join \/ Answer \/ EndEvaluates \/ EndFails

SpecEnd == InitEnd /\ [][NextEnd]_vars

----------------------------------------------------------------------------
(* Calls of evaluate_answer and of the reference-answer generators *)

\* what the backend may answer to the evaluation prompt: a failed call, a
\* document that is no object, and the objects with or without each key
EvalResponses ==
    { EvalResponse("raise", FALSE, NoNum, <<>>, ""),
      EvalResponse("notdict", FALSE, NoNum, <<>>, "") }
    \cup { [EvalResponse("ok", has_overall, overall_score, scores, feedback)
              EXCEPT !.strengths = strengths, !.weaknesses = weaknesses] :
              has_overall \in BOOLEAN,
              overall_score \in {NoNum, NotANumber, 0, F(8)},
              scores \in {<<>>, [c \in Criteria |-> F(7)]},
              feedback \in {"", "good"},
              strengths \in {<<>>, <<"clear">>},
              weaknesses \in {<<>>, <<"vague">>} }

\* a caller evaluates an answer and keeps what evaluate_answer returns
Evaluate ==
    \E response \in EvalResponses :
        /\ resp' = [NoResp EXCEPT !.op = "evaluate", !.response = response,
                                  !.evaluation = evaluate_answer(response)]
        /\ UNCHANGED <<tables, inflight, llm>>

\* what the backend may answer to the reference-answer prompt: a failed
\* call, an object without the key answers, and up to two items whose
\* question_index is missing, in range, negative or too large
RefResponses ==
    LET items == {RefItem(FALSE, 0, reference_answer) :
                      reference_answer \in {"", "gen"}}
                 \cup {RefItem(TRUE, question_index, reference_answer) :
                          question_index \in -3..2,
                          reference_answer \in {"", "gen"}}
    IN  {RefResponse("raise", <<>>), RefResponse("nokey", <<>>)}
        \cup {RefResponse("ok", answers) :
                 answers \in {<<>>} \cup {<<a>> : a \in items}
                             \cup {<<a, b>> : a \in items, b \in items}}

\* a caller asks for the reference answers of the questions ids and keeps
\* what the generator returns
GenerateReferences ==
    \E ids \in {<<>>, <<2>>, <<1, 2>>}, response \in RefResponses,
       op \in {"references", "references_interview"} :
        /\ resp' = [NoResp EXCEPT
                       !.op = op, !.ref_ids = ids, !.response = response,
                       !.answer_map =
                           IF op = "references"
                           THEN generate_reference_answers_for_questions(ids, response)
                           ELSE generate_reference_answers_for_interview(ids, response)]
        /\ UNCHANGED <<tables, inflight, llm>>

\* a caller runs the ingestion of generate_interview_questions or of
\* generate_reference_answers_for_interview: the CV and the JD (jd "none":
\* no jd_source) are a local file, a download, a download that fails, or a
\* download whose temporary file cannot be written; the rest of the try
\* returns or raises at the prompt, at the backend or on the response
Ingest ==
    \E cv \in {"local", "remote", "raise", "write_raise"},
       jd \in {"none", "local", "remote", "raise", "write_raise"},
       rest \in {"ok", "prompt_raise", "llm_raise", "invalid"} :
        LET run == InterviewIngestion(cv, jd, rest) IN
        /\ resp' = [NoResp EXCEPT
                       !.op = "ingest", !.calls = <<cv, jd, rest>>,
                       !.log = run.log,
                       !.error = IF run.raised THEN "raised" ELSE ""]
        /\ UNCHANGED <<tables, inflight, llm>>

NextEval == Evaluate \/ GenerateReferences \/ Ingest

SpecEval == InitLLM /\ [][NextEval]_vars

----------------------------------------------------------------------------
(* Properties of join *)

\* C1: two successful joins in sequence with the same (session_id,
\* student_id) return the same student_session_id, and exactly one
\* studentsession row exists for the pair afterwards.
JoinTwiceSameStudentSession ==
    [][(/\ resp.op = "join" /\ resp.status = 200
        /\ resp'.op = "join" /\ resp'.status = 200
        /\ resp'.session_id = resp.session_id
        /\ resp'.student_id = resp.student_id)
       => /\ resp'.student_session_id = resp.student_session_id
          /\ Cardinality({i \in DOMAIN studentsession' :
                            /\ studentsession'[i].session_id = resp.session_id
                            /\ studentsession'[i].student_id = resp.student_id}) = 1
      ]_vars

\* a join found the student already joined, with one row for the pair
JoinedAgain ==
    /\ resp.op = "join" /\ resp.status = 200
    /\ resp.message = "Already joined this session"
    /\ Len(ExistingStudentSessions(resp.session_id, resp.student_id)) = 1
    /\ Len(studentsession) > 1

\* C2: in every state, also when joins interleave between the existence
\* lookup and the insert, there is at most one studentsession row per
\* (student, session) pair.
OneStudentSessionPerPair ==
    \A i, j \in DOMAIN studentsession :
        (/\ studentsession[i].session_id = studentsession[j].session_id
         /\ studentsession[i].student_id = studentsession[j].student_id) => i = j

\* C3: a join of an EXAM session with status ready is answered 401 exactly
\* when the session has a password and the supplied password differs from
\* it; when the session has no password the join succeeds whatever password
\* is supplied (the storage not failing).
ExamPasswordCheck ==
    (/\ resp.op = "join"
     /\ resp.session_id \in DOMAIN session
     /\ session[resp.session_id].session_type = "EXAM"
     /\ session[resp.session_id].status = "ready")
    => LET configured == session[resp.session_id].password \notin {NoneStr, ""}
       IN  /\ (resp.status = 401)
                <=> (configured /\ resp.password # session[resp.session_id].password)
           /\ (~configured /\ resp.fault = "none") => resp.status = 200

\* a password was supplied to an EXAM session that has none, and the join
\* succeeded
JoinedExamWithoutPassword ==
    /\ resp.op = "join" /\ resp.status = 200
    /\ resp.session_id \in DOMAIN session
    /\ session[resp.session_id].session_type = "EXAM"
    /\ session[resp.session_id].password = NoneStr
    /\ resp.password = "bad"

\* C4: join answers 404 for an absent session, 400 (not ready) for an EXAM
\* session whose status is not ready and 400 (not available) for a PRACTICE
\* or INTERVIEW session whose status is neither created nor ready; a join
\* that fails, for these reasons or for a wrong password, leaves the
\* studentsession table as it was.
JoinFailuresWriteNothing ==
    [][resp'.op = "join" =>
        LET sid == resp'.session_id
            absent == sid # 0 /\ sid \notin DOMAIN session
        IN  /\ absent => resp'.status = 404 /\ resp'.error = "Session not found"
            /\ (~absent /\ sid # 0 /\ session[sid].session_type = "EXAM"
                /\ session[sid].status # "ready")
               => resp'.status = 400 /\ resp'.error = "Session is not ready yet"
            /\ (~absent /\ sid # 0
                /\ session[sid].session_type \in {"PRACTICE", "INTERVIEW"}
                /\ session[sid].status \notin {"created", "ready"})
               => resp'.status = 400 /\ resp'.error = "Session is not available"
            /\ resp'.status \in {400, 401, 404} => studentsession' = studentsession
      ]_vars

\* a join of a closed PRACTICE session was refused while rows exist
JoinRefusedUnavailable ==
    /\ resp.op = "join" /\ resp.status = 400
    /\ resp.error = "Session is not available"
    /\ studentsession # <<>>

----------------------------------------------------------------------------
(* Properties of submit_answer *)

\* C5: after a successful answer there is exactly one answer row for the
\* (student session, question), it carries the text just submitted and its
\* ai_score and ai_feedback are null; a null ai_score and ai_feedback stay
\* null in every step that is not an end request.
SubmitKeepsOneClearedRow ==
    [][/\ (resp'.op = "answer" /\ resp'.status = 200) =>
            IF SessionTypeOf(resp'.student_session_id) = "INTERVIEW"
            THEN LET rows == {i \in DOMAIN studentanswer_interview' :
                                /\ studentanswer_interview'[i].student_session_id
                                     = resp'.student_session_id
                                /\ studentanswer_interview'[i].question_interview_id
                                     = resp'.question_interview_id}
                 IN  /\ Cardinality(rows) = 1
                     /\ \A i \in rows :
                          /\ studentanswer_interview'[i].answer_text = resp'.answer_text
                          /\ studentanswer_interview'[i].ai_score = NoneMap
                          /\ studentanswer_interview'[i].ai_feedback = NoneMap
            ELSE LET rows == {i \in DOMAIN studentanswer' :
                                /\ studentanswer'[i].student_session_id
                                     = resp'.student_session_id
                                /\ studentanswer'[i].question_id = resp'.question_id}
                 IN  /\ Cardinality(rows) = 1
                     /\ \A i \in rows :
                          /\ studentanswer'[i].answer_text = resp'.answer_text
                          /\ studentanswer'[i].ai_score = NoNum
                          /\ studentanswer'[i].ai_feedback = NoneStr
       /\ resp'.op # "end" =>
            /\ \A i \in DOMAIN studentanswer :
                 (studentanswer[i].ai_score = NoNum
                  /\ studentanswer[i].ai_feedback = NoneStr)
                 => /\ studentanswer'[i].ai_score = NoNum
                    /\ studentanswer'[i].ai_feedback = NoneStr
            /\ \A i \in DOMAIN studentanswer_interview :
                 (studentanswer_interview[i].ai_score = NoneMap
                  /\ studentanswer_interview[i].ai_feedback = NoneMap)
                 => /\ studentanswer_interview'[i].ai_score = NoneMap
                    /\ studentanswer_interview'[i].ai_feedback = NoneMap
      ]_vars

\* an answer scored by an earlier end was submitted again: the request
\* updated a row that is not the last of its table, in a student session
\* that has a score_total
ResubmittedAfterEnd ==
    /\ resp.op = "answer" /\ resp.status = 200
    /\ studentsession[resp.student_session_id].score_total # NoNum
    /\ resp.answer_text = "a2"
    /\ resp.answer_id < Len(studentanswer) + Len(studentanswer_interview)

\* C6: in every state, also when answers interleave between the
\* "already answered" lookup and the insert, there is at most one answer row
\* per (student session, question).
OneAnswerPerQuestion ==
    /\ \A i, j \in DOMAIN studentanswer :
         (/\ studentanswer[i].student_session_id = studentanswer[j].student_session_id
          /\ studentanswer[i].question_id = studentanswer[j].question_id) => i = j
    /\ \A i, j \in DOMAIN studentanswer_interview :
         (/\ studentanswer_interview[i].student_session_id
               = studentanswer_interview[j].student_session_id
          /\ studentanswer_interview[i].question_interview_id
               = studentanswer_interview[j].question_interview_id) => i = j

----------------------------------------------------------------------------
(* Properties of get_next_question *)

\* C7: the question get_next_question returns is not among the questions
\* answered in the student session, and it answers completed exactly when
\* the set of answered questions equals the set of eligible questions.
NextQuestionCompletesWhenAllAnswered ==
    (resp.op = "question" /\ resp.status = 200) =>
        LET ss == resp.student_session_id
            session_id == studentsession[ss].session_id
            interview == SessionTypeOf(ss) = "INTERVIEW"
            answered ==
                IF interview
                THEN {studentanswer_interview[i].question_interview_id :
                        i \in {j \in DOMAIN studentanswer_interview :
                                 studentanswer_interview[j].student_session_id = ss}}
                ELSE {studentanswer[i].question_id :
                        i \in {j \in DOMAIN studentanswer :
                                 studentanswer[j].student_session_id = ss}}
            eligible ==
                IF interview
                THEN {i \in DOMAIN question_interview :
                        question_interview[i].session_id = session_id}
                ELSE {i \in DOMAIN question :
                        /\ question[i].session_id = session_id
                        /\ question[i].status \in {"approved", "answers_approved"}}
        IN  /\ ~resp.completed => resp.question_id \notin answered
            /\ resp.completed <=> answered = eligible

----------------------------------------------------------------------------
(* Properties of end_session *)

EndNeverFailsOnceAnswered ==
    (/\ resp.op = "end"
     /\ resp.student_session_id \in DOMAIN studentsession
     /\ studentsession[resp.student_session_id].student_id = resp.student_id
     /\ AnswersToEnd(resp.student_session_id) > 0)
    => resp.status = 200

\* C10: when the update of the studentsession row with the full payload
\* fails, smaller payloads are tried, so that the score_total of the end is
\* stored all the same.
EndStoresScoreWhenFullUpdateFails ==
    (resp.op = "end" /\ resp.fault = "ss_update") =>
        LET ss == resp.student_session_id
            scalars ==
                IF SessionTypeOf(ss) = "INTERVIEW"
                THEN [k \in 1..Len(AnswersInterviewOf(ss)) |->
                        OverallFromScore(
                            studentanswer_interview[AnswersInterviewOf(ss)[k]].ai_score)]
                ELSE [k \in 1..Len(AnswersOf(ss)) |->
                        ScoreOrZero(studentanswer[AnswersOf(ss)[k]].ai_score)]
        IN  studentsession[ss].score_total = Mean(SumSeq(scalars), Len(scalars))

----------------------------------------------------------------------------
(* Properties of end_session without answers *)

\* C11: an end by the owner of a student session that has no answer row is
\* answered 400 "No answers found", asks the backend for nothing, and
\* leaves every table, so the score_total and the ai_overall_feedback of
\* the student session, as it was.
EndWithoutAnswersRefused ==
    [][(/\ resp'.op = "end"
        /\ resp'.student_session_id \in DOMAIN studentsession
        /\ studentsession[resp'.student_session_id].student_id = resp'.student_id
        /\ AnswersToEnd(resp'.student_session_id) = 0)
       => /\ resp'.status = 400 /\ resp'.error = "No answers found"
          /\ resp'.calls = <<>>
          /\ UNCHANGED tables
      ]_vars

\* an end was refused for want of answers
EndRefusedNoAnswers ==
    /\ resp.op = "end" /\ resp.status = 400 /\ resp.error = "No answers found"
    /\ resp.student_session_id \in DOMAIN studentsession
    /\ studentsession[resp.student_session_id].score_total = NoNum

----------------------------------------------------------------------------
(* Properties of call_llm_json *)

\* C12: a call with max_retries 3 whose first two invocations of the
\* backend raise and whose third returns a text that parses has returned
\* the document parsed from the third text, after exactly three invocations
\* and after sleeping retry_delay + 2 * retry_delay or more in total.
ThirdInvocationReturned ==
    (/\ llm.max_retries = 3
     /\ Len(llm.calls) >= 3
     /\ llm.calls[1].kind = "raise" /\ llm.calls[2].kind = "raise"
     /\ Attempt(llm.calls[3]).ok)
    => /\ llm.pc = "returned"
       /\ llm.result = Attempt(llm.calls[3]).value
       /\ Len(llm.calls) = 3
       /\ SumSeq(llm.sleeps) >= llm.retry_delay + 2 * llm.retry_delay

\* the third invocation returned a fenced document after two that raised
ReturnedAfterTwoRaises ==
    /\ llm.pc = "returned" /\ llm.max_retries = 3
    /\ Len(llm.calls) = 3
    /\ llm.calls[1] = Raises /\ llm.calls[2] = Raises
    /\ llm.calls[3] = Text(<<"<fence json>", "{answers}", "<fence>">>)
    /\ llm.result = "{answers}"

\* C13: while every invocation of the backend has failed (it raised, or
\* returned no text, blank text or text that does not parse), the call has
\* made at most max_retries invocations; it has slept after each failed
\* attempt but the last of the loop, each time twice as long as before,
\* starting from retry_delay; and once max_retries invocations have failed
\* it has raised the exception of the last attempt.
ExhaustedRetriesRaiseLast ==
    (/\ llm.pc # "idle"
     /\ \A i \in DOMAIN llm.calls : ~Attempt(llm.calls[i]).ok)
    => /\ Len(llm.calls) <= llm.max_retries
       /\ (Len(llm.calls) = llm.max_retries /\ llm.max_retries > 0)
          => /\ llm.pc = "raised"
             /\ llm.error = [type |-> Attempt(llm.calls[llm.max_retries]).value,
                             attempt |-> llm.max_retries - 1]
       /\ llm.pc = "raised" => Len(llm.calls) = llm.max_retries
       /\ Len(llm.sleeps) = IF llm.pc = "raised" /\ llm.calls # <<>>
                            THEN Len(llm.calls) - 1 ELSE Len(llm.calls)
       /\ \A i \in DOMAIN llm.sleeps :
             llm.sleeps[i] = llm.retry_delay * (2 ^ (i - 1))

\* three invocations failed in the three ways and the call raised
RaisedAfterThreeFailures ==
    /\ llm.pc = "raised" /\ llm.max_retries = 3
    /\ llm.calls = <<Raises, NoText, Text(<<"junk">>)>>
    /\ llm.sleeps = <<llm.retry_delay, 2 * llm.retry_delay>>
    /\ llm.error = [type |-> "ParseError", attempt |-> 2]

----------------------------------------------------------------------------
(* Properties of start_session *)

\* C14: in a PRACTICE session without question rows, a start by the owner
\* for which the backend returns N >= 1 questions, all inserted, stores N
\* questions with status approved and answers total_questions = N; a next
\* question asked before any answer is question_number 1 of the N stored;
\* and a next question asked when each of the N questions has an answer of
\* the student session is answered completed.
PracticeGeneratedThenCompleted ==
    [][LET ssid == resp'.student_session_id
           session_id == studentsession[ssid].session_id
           stored == {i \in 1..Len(question) : question[i].session_id = session_id}
           answered == {studentanswer[a].question_id : a \in Range(AnswersOf(ssid))}
           N == resp'.generated
       IN  (/\ resp'.op \in {"start", "question"}
            /\ ssid \in DOMAIN studentsession
            /\ studentsession[ssid].student_id = resp'.student_id
            /\ session[session_id].session_type = "PRACTICE"
            /\ session[session_id].status \in {"created", "ready"})
           => /\ (/\ resp'.op = "start" /\ stored = {}
                  /\ resp'.gen = "ok" /\ N >= 1 /\ resp'.fault_at = 0)
                 => /\ resp'.status = 200 /\ resp'.session_started
                    /\ resp'.total_questions = N
                    /\ question' = question \o
                          [i \in 1..N |-> [session_id |-> session_id,
                                           status |-> "approved",
                                           reference_answer |-> NoneStr]]
              /\ (resp'.op = "question" /\ stored # {} /\ answered = {})
                 => /\ resp'.status = 200 /\ ~resp'.completed
                    /\ resp'.question_number = 1
                    /\ resp'.total_questions = Cardinality(stored)
              /\ (resp'.op = "question" /\ stored # {} /\ stored \subseteq answered)
                 => resp'.status = 200 /\ resp'.completed
      ]_vars

\* the two generated questions of the PRACTICE session are answered and the
\* next question is answered completed
GeneratedQuestionsCompleted ==
    /\ resp.op = "question" /\ resp.status = 200 /\ resp.completed
    /\ session[1].session_type = "PRACTICE" /\ session[1].status = "created"
    /\ Len(question) = 2
    /\ \A q \in 1..2 :
          /\ question[q].status = "approved"
          /\ \E a \in Range(AnswersOf(resp.student_session_id)) :
                studentanswer[a].question_id = q

\* C15: a start by the owner on an INTERVIEW session that has no question
\* row and whose configuration has no cv_url is answered 400 "Interview CV
\* is missing"; it asks neither the document ingestion nor the backend for
\* anything and leaves every table, so question_interview, as it was.
StartWithoutCvRefused ==
    [][LET ssid == resp'.student_session_id
           session_id == studentsession[ssid].session_id
       IN  (/\ resp'.op = "start"
            /\ ssid \in DOMAIN studentsession
            /\ studentsession[ssid].student_id = resp'.student_id
            /\ session[session_id].session_type = "INTERVIEW"
            /\ session[session_id].status \in {"created", "ready"}
            /\ ~Truthy(interviewconfig[session_id].cv_url)
            /\ \A i \in 1..Len(question_interview) :
                  question_interview[i].session_id # session_id)
           => /\ resp'.status = 400 /\ resp'.error = "Interview CV is missing"
              /\ ~resp'.session_started
              /\ resp'.calls = <<>>
              /\ UNCHANGED tables
      ]_vars

\* a start was refused for want of a CV, with no question stored
StartRefusedMissingCv ==
    /\ resp.op = "start" /\ resp.status = 400
    /\ resp.error = "Interview CV is missing"
    /\ question_interview = <<>>

\* C15 as stated, whether or not the session has question rows: a start by
\* the owner on an INTERVIEW session whose configuration has no cv_url is
\* answered 400 "Interview CV is missing", with no request issued.
StartWithoutCvAlwaysRefused ==
    LET ssid == resp.student_session_id
        session_id == studentsession[ssid].session_id
    IN  (/\ resp.op = "start"
         /\ ssid \in DOMAIN studentsession
         /\ studentsession[ssid].student_id = resp.student_id
         /\ session[session_id].session_type = "INTERVIEW"
         /\ session[session_id].status \in {"created", "ready"}
         /\ ~Truthy(interviewconfig[session_id].cv_url))
        => /\ resp.status = 400 /\ resp.error = "Interview CV is missing"
           /\ resp.calls = <<>>

\* C16: a start on a student session whose session already has question
\* rows (question rows for an EXAM or PRACTICE session, question_interview
\* rows for an INTERVIEW session), whichever student of the session makes
\* it, issues no request and leaves both question tables as they were; a
\* start that does issue a request found the session without question rows.
StartGeneratesOnlyWhenEmpty ==
    [][LET ssid == resp'.student_session_id
           session_id == studentsession[ssid].session_id
           stored == IF session[session_id].session_type = "INTERVIEW"
                     THEN {i \in 1..Len(question_interview) :
                              question_interview[i].session_id = session_id}
                     ELSE {i \in 1..Len(question) :
                              question[i].session_id = session_id}
       IN  (resp'.op = "start" /\ ssid \in DOMAIN studentsession)
           => /\ stored # {} => /\ resp'.calls = <<>>
                                /\ question' = question
                                /\ question_interview' = question_interview
              /\ resp'.calls # <<>> => stored = {}
      ]_vars

\* after the start of one student generated the questions of the session,
\* the start of the other student issued no request
StartedWithoutGenerating ==
    /\ resp.op = "start" /\ resp.status = 200 /\ resp.calls = <<>>
    /\ Len(studentsession) = 2
    /\ resp.student_session_id = 2 /\ resp.student_id # studentsession[1].student_id
    /\ studentsession[1].session_id = studentsession[2].session_id
    /\ session[1].session_type = "INTERVIEW"
    /\ interviewconfig[1].cv_url = "cv.pdf"
    /\ Len(question_interview) = 1

\* C17: a start by the owner that passes the readiness check of its
\* session: on an EXAM or PRACTICE session it is answered 400 "No questions
\* available for this session" exactly when, after any generation, no
\* question of the session has status approved or answers_approved, and
\* otherwise 200 with total_questions the number of such questions; on an
\* INTERVIEW session it is never answered "No questions available": when
\* the session is left without question rows the answer is 400 "Interview
\* CV is missing" or 500, and a 200 carries total_questions equal to the
\* number of question_interview rows of the session.
StartCountsEligibleQuestions ==
    LET ssid == resp.student_session_id
        session_id == studentsession[ssid].session_id
        eligible == Cardinality({i \in 1..Len(question) :
                                    /\ question[i].session_id = session_id
                                    /\ question[i].status \in {"approved",
                                                               "answers_approved"}})
        rows == Cardinality({i \in 1..Len(question_interview) :
                                question_interview[i].session_id = session_id})
        no_questions == /\ resp.status = 400
                        /\ resp.error = "No questions available for this session"
    IN  (/\ resp.op = "start"
         /\ ssid \in DOMAIN studentsession
         /\ studentsession[ssid].student_id = resp.student_id
         /\ resp.error \notin {"Session is not ready", "Session is not available"})
        => IF session[session_id].session_type = "INTERVIEW"
           THEN /\ ~no_questions
                /\ resp.status = 200 => rows > 0 /\ resp.total_questions = rows
                /\ rows = 0 => \/ resp.status = 400
                                  /\ resp.error = "Interview CV is missing"
                               \/ resp.status = 500
                /\ resp.status \in {200, 400, 500}
           ELSE /\ no_questions <=> eligible = 0
                /\ eligible > 0 => /\ resp.status = 200
                                   /\ resp.total_questions = eligible

\* the start of an EXAM session whose only question is a draft was refused
StartRefusedNoQuestions ==
    /\ resp.op = "start" /\ resp.status = 400
    /\ resp.error = "No questions available for this session"
    /\ session[studentsession[resp.student_session_id].session_id].session_type = "EXAM"
    /\ \E i \in 1..Len(question) :
          /\ question[i].session_id = studentsession[resp.student_session_id].session_id
          /\ question[i].status = "draft"

\* C17 as stated, for every session type: a start by the owner that passes
\* the readiness check and the check of the CV, and whose generation, if
\* any, gets a well-formed list from the backend and inserts it, is
\* answered 400 "No questions available for this session" exactly when,
\* after the generation, the session has no eligible question (any row, for
\* an INTERVIEW session), and otherwise 200 with total_questions the number
\* of eligible questions.
StartNoQuestionsIffNoneEligible ==
    LET ssid == resp.student_session_id
        session_id == studentsession[ssid].session_id
        eligible == IF session[session_id].session_type = "INTERVIEW"
                    THEN Cardinality({i \in 1..Len(question_interview) :
                                         question_interview[i].session_id = session_id})
                    ELSE Cardinality({i \in 1..Len(question) :
                                         /\ question[i].session_id = session_id
                                         /\ question[i].status \in {"approved",
                                                                    "answers_approved"}})
    IN  (/\ resp.op = "start"
         /\ ssid \in DOMAIN studentsession
         /\ studentsession[ssid].student_id = resp.student_id
         /\ resp.error \notin {"Session is not ready", "Session is not available",
                              "Interview CV is missing"}
         /\ resp.calls # <<>> => resp.gen = "ok" /\ resp.fault_at = 0)
        => /\ (/\ resp.status = 400
               /\ resp.error = "No questions available for this session")
              <=> eligible = 0
           /\ eligible > 0 => /\ resp.status = 200
                              /\ resp.total_questions = eligible

\* C18: a start that generates questions and whose generation fails (the
\* ingestion or the backend raises, the response of a PRACTICE session lacks
\* the key questions, or an insert of a generated question raises): on an
\* INTERVIEW session it is answered 500 and does not report
\* session_started; on a PRACTICE session the failure is swallowed, and the
\* answer is the one of the count of eligible questions: 400 "No questions
\* available for this session" when there is none, else 200 with their
\* number.
GenerationFailureFatalForInterviewOnly ==
    LET ssid == resp.student_session_id
        session_id == studentsession[ssid].session_id
        session_type == session[session_id].session_type
        eligible == Cardinality({i \in 1..Len(question) :
                                    /\ question[i].session_id = session_id
                                    /\ question[i].status \in {"approved",
                                                               "answers_approved"}})
        failed == \/ resp.gen \in {"raise", "ingest_raise"}
                  \/ resp.gen = "nokey" /\ session_type = "PRACTICE"
                  \/ resp.fault_at \in 1..resp.generated
    IN  (resp.op = "start" /\ resp.calls # <<>> /\ failed)
        => IF session_type = "INTERVIEW"
           THEN resp.status = 500 /\ ~resp.session_started
           ELSE \/ /\ eligible = 0
                   /\ resp.status = 400
                   /\ resp.error = "No questions available for this session"
                \/ /\ eligible > 0
                   /\ resp.status = 200 /\ resp.session_started
                   /\ resp.total_questions = eligible

\* the second insert of a PRACTICE start raised and the start went on with
\* the one question stored
PracticeStartedDespiteFailure ==
    /\ resp.op = "start" /\ resp.status = 200
    /\ resp.calls = <<"questions">>
    /\ resp.gen = "ok" /\ resp.generated = 2 /\ resp.fault_at = 2
    /\ resp.total_questions = 1
    /\ Len(question) = 1

\* C19: a start answered 200 returns as time_limit the time_limit of the
\* session when it is set, and otherwise the time_limit of the interview
\* configuration of the session (none for a session without one), on every
\* start of the student session.
StartReturnsEffectiveTimeLimit ==
    LET ssid == resp.student_session_id
        session_id == studentsession[ssid].session_id
    IN  (resp.op = "start" /\ resp.status = 200)
        => resp.time_limit =
             IF session[session_id].time_limit # NoNum
             THEN session[session_id].time_limit
             ELSE IF session_id \in DOMAIN interviewconfig
                  THEN interviewconfig[session_id].time_limit
                  ELSE NoNum

----------------------------------------------------------------------------
(* Properties of the ownership check *)

\* C20: a start, next question, answer, end or result request on a student
\* session by a student who is not its owner is answered 403 "Access
\* denied", except that an answer request without a question reference or
\* without a text is answered 400 before the owner is looked up; either way
\* the request leaves every table as it was and asks the backend for
\* nothing.
NonOwnerRefused ==
    [][LET ssid == resp'.student_session_id
           malformed == /\ resp'.op = "answer"
                        /\ \/ resp'.question_id = 0 /\ resp'.question_interview_id = 0
                           \/ resp'.answer_text = ""
       IN  (/\ resp'.op \in {"start", "question", "answer", "end", "result"}
            /\ ssid \in DOMAIN studentsession
            /\ studentsession[ssid].student_id # resp'.student_id)
           => /\ IF malformed
                 THEN /\ resp'.status = 400
                      /\ resp'.error = "Question ID and answer are required"
                 ELSE resp'.status = 403 /\ resp'.error = "Access denied"
              /\ resp'.calls = <<>>
              /\ UNCHANGED tables
      ]_vars

\* an end by another student was refused while the student session has an
\* answer waiting for its score
EndByOtherStudentRefused ==
    /\ resp.op = "end" /\ resp.status = 403 /\ resp.error = "Access denied"
    /\ resp.student_session_id \in DOMAIN studentsession
    /\ studentsession[resp.student_session_id].student_id # resp.student_id
    /\ AnswersToEnd(resp.student_session_id) > 0
    /\ studentsession[resp.student_session_id].score_total = NoNum

\* C20 as stated: every start, next question, answer, end or result request
\* on a student session by a student who is not its owner is answered 403,
\* leaves every table as it was and asks the backend for nothing.
NonOwnerAlwaysForbidden ==
    [][LET ssid == resp'.student_session_id
       IN  (/\ resp'.op \in {"start", "question", "answer", "end", "result"}
            /\ ssid \in DOMAIN studentsession
            /\ studentsession[ssid].student_id # resp'.student_id)
           => /\ resp'.status = 403
              /\ resp'.calls = <<>>
              /\ UNCHANGED tables
      ]_vars

----------------------------------------------------------------------------
(* Properties of the stored answers *)

\* C21: every answer_text stored in studentanswer or studentanswer_interview
\* has at most 16000 characters.
StoredAnswerTextWithinCap ==
    LET cap == 16000 IN
    /\ \A i \in DOMAIN studentanswer : Chars(studentanswer[i].answer_text) <= cap
    /\ \A i \in DOMAIN studentanswer_interview :
          Chars(studentanswer_interview[i].answer_text) <= cap

----------------------------------------------------------------------------
(* Properties of a repeated end *)

\* C22: an end request served right after an end of the same student
\* session that was answered 200 asks the backend for no evaluation, leaves
\* every answer row as it was and, when answered 200, returns the
\* score_total of the first.
SecondEndRepeatsFirst ==
    [][(/\ resp.op = "end" /\ resp.status = 200
        /\ resp'.op = "end" /\ resp'.student_session_id = resp.student_session_id
        /\ resp'.student_id = resp.student_id)
       => /\ \A i \in DOMAIN resp'.calls : resp'.calls[i] # "evaluate"
          /\ UNCHANGED <<studentanswer, studentanswer_interview>>
          /\ resp'.status = 200 => resp'.score_total = resp.score_total
      ]_vars

----------------------------------------------------------------------------
(* Properties of the reads *)

\* C23: a result request and a history request leave every table as it was
\* and ask the backend for nothing, whatever they are answered; a history
\* request is answered 200, with one entry per student session of the
\* student and so with the empty list for a student who has none.
ResultAndHistoryArePureReads ==
    [][(resp'.op \in {"result", "history"})
       => /\ UNCHANGED tables
          /\ resp'.calls = <<>>
          /\ resp'.op = "history"
                => /\ resp'.status = 200
                   /\ Len(resp'.history) =
                        Cardinality({i \in DOMAIN studentsession :
                                        studentsession[i].student_id = resp'.student_id})
                   /\ (\A i \in DOMAIN studentsession :
                          studentsession[i].student_id # resp'.student_id)
                        => resp'.history = <<>>
      ]_vars

\* a student without a student session was given the empty history while
\* the other student has ended one
EmptyHistoryReturned ==
    /\ resp.op = "history" /\ resp.status = 200 /\ resp.history = <<>>
    /\ \E i \in DOMAIN studentsession :
          /\ studentsession[i].student_id # resp.student_id
          /\ studentsession[i].score_total # NoNum

----------------------------------------------------------------------------
(* Properties of evaluate_answer *)

\* C24: evaluate_answer returns a result for every answer of the backend,
\* and when the call fails, the document is no object or its overall score
\* is no number, the result has 5.0 for each of the six criteria and for the
\* overall score, a feedback that tells of the error and empty strengths and
\* weaknesses.
EvaluationDegradesOnFailure ==
    LET response == resp.response
        evaluation == resp.evaluation
        failure == \/ response.kind \in {"raise", "notdict"}
                   \/ /\ response.has_overall
                      /\ response.overall_score \in {NoNum, NotANumber}
    IN  resp.op = "evaluate"
        => /\ DOMAIN evaluation = {"scores", "overall_score", "feedback",
                                   "strengths", "weaknesses"}
           /\ failure
                => /\ DOMAIN evaluation.scores = Criteria
                   /\ \A c \in Criteria : evaluation.scores[c] = F(5)
                   /\ evaluation.overall_score = F(5)
                   /\ evaluation.feedback = "Evaluation error"
                   /\ evaluation.strengths = <<>>
                   /\ evaluation.weaknesses = <<>>
           /\ ~failure
                => /\ evaluation.scores = response.scores
                   /\ evaluation.feedback = response.feedback
                   /\ evaluation.overall_score # NoNum

\* the backend answered an object with scores, strengths and weaknesses but
\* a null overall score, and the result is the degraded one
DegradedOnNullOverallScore ==
    /\ resp.op = "evaluate"
    /\ resp.response.kind = "ok" /\ resp.response.has_overall
    /\ resp.response.overall_score = NoNum
    /\ resp.response.scores # <<>>
    /\ resp.response.strengths # <<>>
    /\ resp.evaluation = DefaultEvaluation

----------------------------------------------------------------------------
(* Properties of the tables *)

\* C25: no request removes a row: every step keeps every row of session,
\* interviewconfig, question, question_interview, studentsession,
\* studentanswer and studentanswer_interview under its id, with the ids it
\* refers to.
RowsAreNeverDeleted ==
    [][/\ DOMAIN session \subseteq DOMAIN session'
       /\ DOMAIN interviewconfig \subseteq DOMAIN interviewconfig'
       /\ \A i \in DOMAIN question :
             i \in DOMAIN question' /\ question'[i].session_id = question[i].session_id
       /\ \A i \in DOMAIN question_interview :
             /\ i \in DOMAIN question_interview'
             /\ question_interview'[i].session_id = question_interview[i].session_id
       /\ \A i \in DOMAIN studentsession :
             /\ i \in DOMAIN studentsession'
             /\ studentsession'[i].session_id = studentsession[i].session_id
             /\ studentsession'[i].student_id = studentsession[i].student_id
       /\ \A i \in DOMAIN studentanswer :
             /\ i \in DOMAIN studentanswer'
             /\ studentanswer'[i].student_session_id = studentanswer[i].student_session_id
             /\ studentanswer'[i].question_id = studentanswer[i].question_id
       /\ \A i \in DOMAIN studentanswer_interview :
             /\ i \in DOMAIN studentanswer_interview'
             /\ studentanswer_interview'[i].student_session_id =
                    studentanswer_interview[i].student_session_id
             /\ studentanswer_interview'[i].question_interview_id =
                    studentanswer_interview[i].question_interview_id
      ]_vars

\* a student session of a session without questions was started, which
\* generated a question, answered and ended, and every row is there
RowsKeptThroughWholeFlow ==
    /\ resp.op = "end" /\ resp.status = 200
    /\ Len(studentsession) = 1 /\ studentsession[1].score_total # NoNum
    /\ Len(question) = 1 /\ question[1].reference_answer = "gen"
    /\ Len(studentanswer) = 1 /\ studentanswer[1].answer_text = LongText
    /\ studentanswer[1].ai_score # NoNum

----------------------------------------------------------------------------
(* Properties of the evaluation pass of end *)

\* C26: an end request of the owner asks the backend for no evaluation and
\* leaves every answer row as it was when every answer of the student
\* session has a score; when one of them has none, it asks for at most one
\* evaluation per answer of the student session, scored or not, and for
\* exactly one per answer when no update raises and the request is not
\* refused for a missing cv_url, and then every answer row carries the
\* result of its new evaluation.
EndEvaluatesAllOrNone ==
    [][LET ssid == resp'.student_session_id
           interview == SessionTypeOf(ssid) = "INTERVIEW"
           answers == IF interview THEN AnswersInterviewOf(ssid) ELSE AnswersOf(ssid)
           unscored ==
               IF interview
               THEN \E a \in Range(answers) : studentanswer_interview[a].ai_score = NoneMap
               ELSE \E a \in Range(answers) : studentanswer[a].ai_score = NoNum
           evaluations == {i \in DOMAIN resp'.calls : resp'.calls[i] = "evaluate"}
           updates == {i \in DOMAIN resp'.log : resp'.log[i] = "update_answer"}
           refused == resp'.status = 400
       IN  (/\ resp'.op = "end" /\ ssid \in DOMAIN studentsession
            /\ studentsession[ssid].student_id = resp'.student_id)
           => IF ~unscored
              THEN /\ evaluations = {}
                   /\ UNCHANGED <<studentanswer, studentanswer_interview>>
              ELSE /\ Cardinality(evaluations) <= Len(answers)
                   /\ (resp'.fault # "answer_update" /\ ~refused)
                        => /\ Cardinality(evaluations) = Len(answers)
                           /\ Cardinality(updates) = Len(answers)
      ]_vars

\* after an end that stored a total score, the student session got a
\* second answer; the next end evaluated the first answer again, wrote its
\* new score, and stopped at the update of the second
ScoredAnswerEvaluatedAgain ==
    /\ resp.op = "end" /\ resp.status = 500
    /\ resp.fault = "answer_update" /\ resp.fault_at = 2
    /\ resp.log = <<"evaluate", "update_answer", "evaluate">>
    /\ studentsession[resp.student_session_id].score_total = 0
    /\ Len(studentanswer) = 2
    /\ studentanswer[1].ai_score = F(8) /\ studentanswer[2].ai_score = NoNum

\* C26 as stated: an end request asks the backend for at most one
\* evaluation per answer of the student session without a score, and an
\* answer that has a score keeps its ai_score and its ai_feedback.
EndEvaluatesOnlyUnscoredAnswers ==
    [][LET ssid == resp'.student_session_id
           unscored ==
               {a \in Range(AnswersOf(ssid)) : studentanswer[a].ai_score = NoNum}
               \cup {a \in Range(AnswersInterviewOf(ssid)) :
                        studentanswer_interview[a].ai_score = NoneMap}
           evaluations == {i \in DOMAIN resp'.calls : resp'.calls[i] = "evaluate"}
       IN  (resp'.op = "end" /\ ssid \in DOMAIN studentsession)
           => /\ Cardinality(evaluations) <= Cardinality(unscored)
              /\ \A a \in DOMAIN studentanswer :
                    studentanswer[a].ai_score # NoNum
                    => /\ studentanswer'[a].ai_score = studentanswer[a].ai_score
                       /\ studentanswer'[a].ai_feedback = studentanswer[a].ai_feedback
              /\ \A a \in DOMAIN studentanswer_interview :
                    studentanswer_interview[a].ai_score # NoneMap
                    => /\ studentanswer_interview'[a].ai_score =
                              studentanswer_interview[a].ai_score
                       /\ studentanswer_interview'[a].ai_feedback =
                              studentanswer_interview[a].ai_feedback
      ]_vars

\* C27: in the requests and updates of an end request, in program order,
\* there is at most one evaluation per answer of the student session, every
\* evaluation but the first comes right after the update of the answer
\* evaluated before it, and the answers whose update was made, the first
\* ones in retrieval order, have their score stored when the request is
\* over, also when the update of a later answer raised; the other answers
\* are as they were.
EvaluationStoredBeforeNextRequest ==
    [][LET ssid == resp'.student_session_id
           interview == SessionTypeOf(ssid) = "INTERVIEW"
           answers == IF interview THEN AnswersInterviewOf(ssid) ELSE AnswersOf(ssid)
           log == resp'.log
           evaluations == {i \in DOMAIN log : log[i] = "evaluate"}
           updates == {i \in DOMAIN log : log[i] = "update_answer"}
           stored(k) == IF interview
                        THEN studentanswer_interview'[answers[k]].ai_score # NoneMap
                        ELSE studentanswer'[answers[k]].ai_score # NoNum
           untouched(k) == IF interview
                           THEN studentanswer_interview'[answers[k]]
                                    = studentanswer_interview[answers[k]]
                           ELSE studentanswer'[answers[k]] = studentanswer[answers[k]]
       IN  (/\ resp'.op = "end" /\ ssid \in DOMAIN studentsession
            /\ studentsession[ssid].student_id = resp'.student_id)
           => /\ Cardinality(evaluations) <= Len(answers)
              /\ \A i \in evaluations :
                    (\E j \in evaluations : j < i) => log[i - 1] = "update_answer"
              /\ \A i \in updates : i > 1 /\ log[i - 1] = "evaluate"
              /\ Cardinality(updates) =
                    IF resp'.fault = "answer_update" /\ evaluations # {}
                    THEN Cardinality(evaluations) - 1
                    ELSE Cardinality(evaluations)
              /\ \A k \in DOMAIN answers :
                    IF k <= Cardinality(updates) THEN stored(k) ELSE untouched(k)
      ]_vars

\* the update of the second answer raised, and the score of the first one
\* is stored
FirstScoreStoredWhenSecondUpdateRaised ==
    /\ resp.op = "end" /\ resp.status = 500
    /\ resp.fault = "answer_update" /\ resp.fault_at = 2
    /\ resp.log = <<"evaluate", "update_answer", "evaluate">>
    /\ Len(studentanswer) = 2
    /\ studentanswer[1].ai_score = F(8) /\ studentanswer[2].ai_score = NoNum

----------------------------------------------------------------------------
(* Properties of the reference answers generated by end *)

\* C28: an end request of the owner on a PRACTICE student session, or on an
\* INTERVIEW one whose configuration has a cv_url, with an answer without a
\* score and an answered question without a reference answer, asks the
\* backend once for reference answers, for exactly the answered questions
\* without one and before any evaluation, and writes each non-empty
\* reference answer of the map it gets on its question and nothing else on
\* the questions; on an EXAM student session it asks for none and leaves the
\* questions as they are.
EndGeneratesMissingReferencesOnce ==
    [][LET ssid == resp'.student_session_id
           session_id == studentsession[ssid].session_id
           type == SessionTypeOf(ssid)
           interview == type = "INTERVIEW"
           table == IF interview THEN question_interview ELSE question
           after == IF interview THEN question_interview' ELSE question'
           answered ==
               IF interview
               THEN {studentanswer_interview[a].question_interview_id :
                        a \in Range(AnswersInterviewOf(ssid))}
               ELSE {studentanswer[a].question_id : a \in Range(AnswersOf(ssid))}
           unscored ==
               IF interview
               THEN \E a \in Range(AnswersInterviewOf(ssid)) :
                       studentanswer_interview[a].ai_score = NoneMap
               ELSE \E a \in Range(AnswersOf(ssid)) : studentanswer[a].ai_score = NoNum
           missing == {q \in answered : ~Truthy(table[q].reference_answer)}
           no_cv == interview /\ ~Truthy(interviewconfig[session_id].cv_url)
           requests == {i \in DOMAIN resp'.calls : resp'.calls[i] = "reference_answers"}
           map == resp'.answer_map.map
       IN  (/\ resp'.op = "end" /\ ssid \in DOMAIN studentsession
            /\ studentsession[ssid].student_id = resp'.student_id
            /\ unscored /\ missing # {} /\ ~no_cv)
           => IF type = "EXAM"
              THEN requests = {} /\ UNCHANGED <<question, question_interview>>
              ELSE /\ requests = {1}
                   /\ Range(resp'.ref_ids) = missing
                   /\ ~resp'.answer_map.raised => DOMAIN map \subseteq missing
                   /\ \A q \in DOMAIN table :
                         after[q] =
                           IF /\ ~resp'.answer_map.raised
                              /\ q \in DOMAIN map /\ map[q] \notin {NoneStr, ""}
                           THEN [table[q] EXCEPT !.reference_answer = map[q]]
                           ELSE table[q]
      ]_vars

\* an end asked once for the reference answers of two interview questions,
\* got an empty one and a non-empty one, and wrote the second
OneReferenceWrittenOfTwo ==
    /\ resp.op = "end" /\ resp.status = 200
    /\ resp.calls = <<"reference_answers", "evaluate", "evaluate", "overall_feedback">>
    /\ resp.ref_ids = <<1, 2>>
    /\ resp.answer_map = [raised |-> FALSE, map |-> (1 :> "") @@ (2 :> "gen")]
    /\ question_interview[1].reference_answer = NoneStr
    /\ question_interview[2].reference_answer = "gen"

\* C28 as stated: whatever the type of the session, such an end request asks
\* the backend once for reference answers, before any evaluation.
EndAlwaysGeneratesMissingReferences ==
    [][LET ssid == resp'.student_session_id
           session_id == studentsession[ssid].session_id
           interview == SessionTypeOf(ssid) = "INTERVIEW"
           table == IF interview THEN question_interview ELSE question
           answered ==
               IF interview
               THEN {studentanswer_interview[a].question_interview_id :
                        a \in Range(AnswersInterviewOf(ssid))}
               ELSE {studentanswer[a].question_id : a \in Range(AnswersOf(ssid))}
           unscored ==
               IF interview
               THEN \E a \in Range(AnswersInterviewOf(ssid)) :
                       studentanswer_interview[a].ai_score = NoneMap
               ELSE \E a \in Range(AnswersOf(ssid)) : studentanswer[a].ai_score = NoNum
           missing == {q \in answered : ~Truthy(table[q].reference_answer)}
           no_cv == interview /\ ~Truthy(interviewconfig[session_id].cv_url)
       IN  (/\ resp'.op = "end" /\ ssid \in DOMAIN studentsession
            /\ studentsession[ssid].student_id = resp'.student_id
            /\ unscored /\ missing # {} /\ ~no_cv)
           => {i \in DOMAIN resp'.calls : resp'.calls[i] = "reference_answers"} = {1}
      ]_vars

----------------------------------------------------------------------------
(* Properties of end without a cv_url *)

\* C29: an end request of the owner on an INTERVIEW student session with
\* answers, whose interview configuration has no cv_url, is answered 400
\* "Interview CV is missing, cannot evaluate" when an answer has no score,
\* having asked the backend for nothing and left every table as it was; when
\* every answer has a score it is not refused for the cv_url and asks for no
\* evaluation.
EndWithoutCvRefusedOnlyWhenEvaluating ==
    [][LET ssid == resp'.student_session_id
           session_id == studentsession[ssid].session_id
           answers == AnswersInterviewOf(ssid)
           unscored == \E a \in Range(answers) :
                          studentanswer_interview[a].ai_score = NoneMap
           missing == "Interview CV is missing, cannot evaluate"
       IN  (/\ resp'.op = "end" /\ ssid \in DOMAIN studentsession
            /\ studentsession[ssid].student_id = resp'.student_id
            /\ SessionTypeOf(ssid) = "INTERVIEW"
            /\ answers # <<>>
            /\ interviewconfig[session_id].cv_url = NoneStr)
           => IF unscored
              THEN /\ resp'.status = 400 /\ resp'.error = missing
                   /\ resp'.calls = <<>> /\ resp'.log = <<>>
                   /\ UNCHANGED tables
              ELSE /\ resp'.error # missing
                   /\ \A i \in DOMAIN resp'.calls : resp'.calls[i] = "overall_feedback"
                   /\ resp'.fault = "none" => resp'.status = 200
                   /\ UNCHANGED <<studentanswer_interview, question_interview>>
      ]_vars

\* an end was refused for the missing cv_url: the student session, ended
\* before, has a second answer, which has no score
EndRefusedMissingCv ==
    /\ resp.op = "end" /\ resp.status = 400
    /\ resp.error = "Interview CV is missing, cannot evaluate"
    /\ Len(studentanswer_interview) = 2
    /\ studentanswer_interview[1].ai_score # NoneMap
    /\ studentanswer_interview[2].ai_score = NoneMap
    /\ studentsession[resp.student_session_id].score_total = F(8)

----------------------------------------------------------------------------
(* Properties of the next question *)

\* C30: a next-question request answered 200 either reports completion,
\* when the student session has answered every question students may see,
\* or returns the first of those it has not answered (in table order, and
\* for an INTERVIEW session in ascending order of question_index), with
\* question_number the number of answers of the student session plus one and
\* total_questions the number of questions students may see.
NextQuestionIsFirstUnanswered ==
    LET ssid == resp.student_session_id
        session_id == studentsession[ssid].session_id
        interview == SessionTypeOf(ssid) = "INTERVIEW"
        eligible ==
            IF interview
            THEN {q \in DOMAIN question_interview :
                     question_interview[q].session_id = session_id}
            ELSE {q \in DOMAIN question :
                     /\ question[q].session_id = session_id
                     /\ question[q].status \in {"approved", "answers_approved"}}
        answers ==
            IF interview
            THEN {a \in DOMAIN studentanswer_interview :
                     studentanswer_interview[a].student_session_id = ssid}
            ELSE {a \in DOMAIN studentanswer : studentanswer[a].student_session_id = ssid}
        answered ==
            IF interview
            THEN {studentanswer_interview[a].question_interview_id : a \in answers}
            ELSE {studentanswer[a].question_id : a \in answers}
        unanswered == eligible \ answered
        before(p, q) ==
            IF interview
            THEN \/ question_interview[p].question_index < question_interview[q].question_index
                 \/ /\ question_interview[p].question_index = question_interview[q].question_index
                    /\ p <= q
            ELSE p <= q
    IN  (resp.op = "question" /\ resp.status = 200)
        => IF unanswered = {}
           THEN resp.completed /\ resp.question_id = 0
           ELSE /\ ~resp.completed
                /\ resp.question_id \in unanswered
                /\ \A q \in unanswered : before(resp.question_id, q)
                /\ resp.question_number = Cardinality(answers) + 1
                /\ resp.total_questions = Cardinality(eligible)

\* the question of index 0, stored second, is answered, and the next
\* question is the one of index 1, stored first, as number 2 of 2
SecondQuestionByIndexReturned ==
    /\ resp.op = "question" /\ resp.status = 200
    /\ resp.question_id = 1 /\ resp.question_number = 2 /\ resp.total_questions = 2
    /\ Len(question_interview) = 2
    /\ question_interview[1].question_index = 1
    /\ question_interview[2].question_index = 0
    /\ Len(studentanswer_interview) = 1
    /\ studentanswer_interview[1].question_interview_id = 2

----------------------------------------------------------------------------
(* Properties of the reference-answer generators *)

\* C31: a reference-answer generator that is given a list of answers maps
\* each item to the question at the item's question_index in the list of
\* questions asked for, and skips, without raising, an item whose
\* question_index is missing, negative or at least the number of questions:
\* every reference answer it returns is that of an item whose question_index
\* names the question.
ReferenceItemsMappedByIndex ==
    (/\ resp.op \in {"references", "references_interview"}
     /\ resp.ref_ids # <<>>
     /\ resp.response.kind = "ok")
    => /\ ~resp.answer_map.raised
       /\ \A id \in DOMAIN resp.answer_map.map :
            \E i \in DOMAIN resp.response.answers :
                LET item == resp.response.answers[i] IN
                /\ item.has_index
                /\ item.question_index >= 0
                /\ item.question_index < Len(resp.ref_ids)
                /\ resp.ref_ids[item.question_index + 1] = id
                /\ resp.answer_map.map[id] = item.reference_answer

\* C32: evaluate_answer never raises and never returns a null overall_score:
\* when the backend's object has no key overall_score it returns 0.0 and
\* keeps the scores, feedback, strengths and weaknesses of the object; when
\* the key is there and float() refuses its value (null, not a number) it
\* returns the default evaluation, 5.0 for every score, and keeps nothing of
\* the object.
EvaluationOverallScoreNeverNull ==
    resp.op = "evaluate" =>
        LET response == resp.response
            evaluation == resp.evaluation
        IN  /\ evaluation.overall_score \notin {NoNum, NotANumber}
            /\ (response.kind = "ok" /\ ~response.has_overall)
               => /\ evaluation.overall_score = 0
                  /\ evaluation.scores = response.scores
                  /\ evaluation.feedback = response.feedback
                  /\ evaluation.strengths = response.strengths
                  /\ evaluation.weaknesses = response.weaknesses
            /\ (/\ response.kind = "ok" /\ response.has_overall
                /\ response.overall_score \in {NoNum, NotANumber})
               => evaluation = DefaultEvaluation

\* an object without the key overall_score was evaluated: 0.0 beside its
\* scores and feedback
MissingOverallScoreReturnedAsZero ==
    /\ resp.op = "evaluate"
    /\ resp.response.kind = "ok" /\ ~resp.response.has_overall
    /\ resp.response.scores = [c \in Criteria |-> F(7)]
    /\ resp.response.feedback = "good"
    /\ resp.evaluation.overall_score = 0
    /\ resp.evaluation.scores = [c \in Criteria |-> F(7)]

\* C32 as stated: a missing or uncoercible overall_score is returned as null
\* beside the rest of the parsed evaluation
EvaluationNullOverallWhenMissingOrInvalid ==
    (/\ resp.op = "evaluate"
     /\ resp.response.kind = "ok"
     /\ \/ ~resp.response.has_overall
        \/ resp.response.overall_score \in {NoNum, NotANumber})
    => /\ resp.evaluation.overall_score = NoNum
       /\ resp.evaluation.scores = resp.response.scores
       /\ resp.evaluation.feedback = resp.response.feedback

----------------------------------------------------------------------------
(* Properties of submit_answer and of the questions it serves *)

\* C33: an answer to a question of a PRACTICE session that has no reference
\* answer makes submit_answer call the reference-answer generator; when the
\* generator raises and the storage does not fail, the answer row is still
\* inserted or updated with the text and no score, the question is left as
\* it was, and the response is a 200 with the progress counters. No answer
\* request calls anything but the reference-answer generator.
SubmitSavesWhenReferenceGenerationFails ==
    [][resp'.op = "answer" =>
        LET r == resp' IN
        /\ Range(r.calls) \subseteq {"reference_answers"}
        /\ (/\ r.answer_text # ""
            /\ r.question_id \in DOMAIN question
            /\ OwnerGate(r.student_session_id, r.student_id)[1] = 200
            /\ SessionTypeOf(r.student_session_id) = "PRACTICE"
            /\ ~Truthy(question[r.question_id].reference_answer))
           => /\ r.calls = <<"reference_answers">>
              /\ r.answer_map # NoneMap
              /\ (r.answer_map.raised /\ r.fault = "none")
                 => /\ r.status = 200
                    /\ question' = question
                    /\ r.answer_id \in DOMAIN studentanswer'
                    /\ studentanswer'[r.answer_id] =
                          [student_session_id |-> r.student_session_id,
                           question_id |-> r.question_id,
                           answer_text |-> r.answer_text,
                           ai_score |-> NoNum, ai_feedback |-> NoneStr]
                    /\ r.answered_count = CountOf(studentanswer', r.student_session_id)
                    /\ r.next_question_available
                          = (r.answered_count < r.total_questions)
    ]_vars

\* an answer was saved although the generator raised: the question still has
\* no reference answer
AnswerSavedAfterReferenceFailure ==
    /\ resp.op = "answer" /\ resp.status = 200
    /\ resp.calls = <<"reference_answers">>
    /\ resp.answer_map # NoneMap /\ resp.answer_map.raised
    /\ ~Truthy(question[resp.question_id].reference_answer)
    /\ studentanswer[resp.answer_id].answer_text = resp.answer_text
    /\ resp.answered_count = 1

----------------------------------------------------------------------------
(* Properties of question generation at start *)

\* C34: a start of a PRACTICE session that has no question row calls the
\* question generator; when the backend's response is malformed (the call
\* raises) or has no key questions, the start inserts no question row, so
\* that the session still has none and the next start of a student session
\* of that session calls the generator again.
StartRetriesFailedPracticeGeneration ==
    [][\A id \in DOMAIN studentsession :
        LET r == resp' IN
            (/\ r.op = "start" /\ r.student_session_id = id
             /\ StartGate(id, r.student_id)[1] = 200
             /\ SessionTypeOf(id) = "PRACTICE"
             /\ \A i \in 1..Len(question) :
                    question[i].session_id # studentsession[id].session_id)
            => /\ r.calls = <<"questions">>
               /\ r.gen \in {"raise", "nokey"}
                  => /\ question' = question
                     /\ r.status = 400
                     /\ StartGenerates(id)'
    ]_vars

\* a start of a PRACTICE session got a response without the key questions
\* and left the session without questions
PracticeGenerationFailedWithoutRows ==
    /\ resp.op = "start" /\ resp.gen = "nokey"
    /\ resp.calls = <<"questions">>
    /\ resp.status = 400
    /\ SessionTypeOf(resp.student_session_id) = "PRACTICE"
    /\ question = <<>>
    /\ StartGenerates(resp.student_session_id)

----------------------------------------------------------------------------
(* Properties of the ingestion of the CV and the JD *)

\* C35: when generate_interview_questions or
\* generate_reference_answers_for_interview returns or raises, every
\* temporary file that load_and_extract returned to it for the CV or the JD
\* has been deleted after it was obtained, also when the CV was ingested and
\* the JD's ingestion, the prompt or the backend call then failed.
ObtainedTemporaryFilesReleased ==
    resp.op = "ingest" =>
        \A i \in DOMAIN resp.log :
            (resp.log[i][1] = "obtain" /\ Truthy(resp.log[i][2]))
            => \E j \in DOMAIN resp.log :
                   j > i /\ resp.log[j] = <<"unlink", resp.log[i][2]>>

\* the CV was downloaded, the JD's download failed, and the CV's temporary
\* file was deleted
CvReleasedAfterJdFailure ==
    /\ resp.op = "ingest"
    /\ resp.calls = <<"remote", "raise", "ok">>
    /\ resp.error = "raised"
    /\ resp.log = << <<"create", "cv">>, <<"obtain", "cv">>, <<"unlink", "cv">> >>

\* C36: the next_question_available of a saved answer is true exactly when
\* the next-question request that follows it on the same student session
\* returns a question and not completed, and its total_questions is the
\* total_questions that request reports.
SubmitCountersAgreeWithNextQuestion ==
    [][(/\ resp.op = "answer" /\ resp.status = 200
        /\ resp'.op = "question" /\ resp'.status = 200
        /\ resp'.student_session_id = resp.student_session_id)
       => /\ resp.next_question_available = ~resp'.completed
          /\ ~resp'.completed => resp'.total_questions = resp.total_questions
    ]_vars

\* C37: every answer row references a question of the session of the
\* student session that answered: an answer request that names a question of
\* another session creates or updates no row.
AnswersReferenceQuestionsOfTheirSession ==
    /\ \A a \in DOMAIN studentanswer :
          question[studentanswer[a].question_id].session_id
              = studentsession[studentanswer[a].student_session_id].session_id
    /\ \A a \in DOMAIN studentanswer_interview :
          question_interview[studentanswer_interview[a].question_interview_id].session_id
              = studentsession[studentanswer_interview[a].student_session_id].session_id

----------------------------------------------------------------------------
(* Properties of finished student sessions *)

\* C38: in the state a successful end request leaves, the student session
\* has a score_total and every one of its answer rows has an ai_score.
EndedStudentSessionFullyScored ==
    (resp.op = "end" /\ resp.status = 200)
    => /\ studentsession[resp.student_session_id].score_total # NoNum
       /\ \A a \in DOMAIN studentanswer :
             studentanswer[a].student_session_id = resp.student_session_id
             => studentanswer[a].ai_score # NoNum
       /\ \A a \in DOMAIN studentanswer_interview :
             studentanswer_interview[a].student_session_id = resp.student_session_id
             => studentanswer_interview[a].ai_score # NoneMap

\* an end request evaluated the two answers of a student session and left
\* both with a score
EndedWithTwoScoredAnswers ==
    /\ resp.op = "end" /\ resp.status = 200
    /\ resp.log # <<>>
    /\ Len(studentanswer) = 2
    /\ \A a \in DOMAIN studentanswer :
          /\ studentanswer[a].student_session_id = resp.student_session_id
          /\ studentanswer[a].ai_score # NoNum
    /\ studentsession[resp.student_session_id].score_total # NoNum

\* C38 as stated: a student session with a score_total has no answer row
\* without an ai_score
FinishedStudentSessionHasNoUnscoredAnswer ==
    \A id \in DOMAIN studentsession :
        studentsession[id].score_total # NoNum
        => /\ \A a \in DOMAIN studentanswer :
                 studentanswer[a].student_session_id = id
                 => studentanswer[a].ai_score # NoNum
           /\ \A a \in DOMAIN studentanswer_interview :
                 studentanswer_interview[a].student_session_id = id
                 => studentanswer_interview[a].ai_score # NoneMap

----------------------------------------------------------------------------
(* Properties of concurrent starts *)

\* C39: when start requests of one PRACTICE or INTERVIEW session interleave
\* while the session has no questions, the session is populated once: a
\* start that generated and inserted its batch leaves the session with the
\* questions of that batch and no others, and no two interview questions of
\* a session share a question_index.
ConcurrentStartsPopulateOnce ==
    /\ (/\ resp.op = "start" /\ resp.status = 200
        /\ resp.calls # <<>> /\ resp.fault = "none")
       => Len(StartRows(resp.student_session_id)) = resp.generated
    /\ \A i, j \in DOMAIN question_interview :
          (/\ i # j
           /\ question_interview[i].session_id = question_interview[j].session_id)
          => question_interview[i].question_index # question_interview[j].question_index

\* C40: the population of a session at start is all or nothing: after a
\* start that generated a batch, whether or not an insert of the batch
\* raised, the session holds none or all of the generated questions.
StartPopulationAllOrNothing ==
    (resp.op = "start" /\ resp.calls # <<>> /\ resp.gen = "ok")
    => Len(StartRows(resp.student_session_id)) \in {0, resp.generated}

====
